---- MODULE Spec2Model ----
(***************************************************************************)
(* Model of the evaluation core of linkwise-eval:                          *)
(*   - the guardrail rule engine  (eval/src/sync_checks.py,                *)
(*                                 eval/src/pii_patterns.py)               *)
(*   - the judge scorer           (eval/src/judge.py, eval/src/tracing.py) *)
(*                                                                         *)
(* A text is a sequence of whitespace-free tokens joined by one space.     *)
(* The tokens of Vocab are literal strings; what each regular expression   *)
(* of the source finds in a token is tabulated below, pattern by pattern.  *)
(***************************************************************************)
EXTENDS Integers, Sequences, FiniteSets, TLC

\* ------------------------------------------------------------------ bounds
MaxTextLen == 3        \* longest text, in tokens
MaxLimit == 3          \* largest configured max_words

\* ------------------------------------------------------------- vocabulary
Vocab == {"hallo", "bellen", "hey", "garantie", "jan@example.com",
          "06-12345678", "\"bellen\"", "\"jan@example.com\""}

\* len(token), for the offsets of the matches
WordLen(w) ==
  CASE w = "hallo" -> 5
    [] w = "bellen" -> 6
    [] w = "hey" -> 3
    [] w = "garantie" -> 8
    [] w = "jan@example.com" -> 15
    [] w = "06-12345678" -> 11
    [] w = "\"jan@example.com\"" -> 17
    [] w = "\"bellen\"" -> 8

Texts == UNION {[1..n -> Vocab] : n \in 0..MaxTextLen}

None == "None"

\* --------------------------------------------------------- pii_patterns.py
\* email_pattern, phone_pattern (the other categories match no token of Vocab)
PiiType(w) ==
  CASE w \in {"jan@example.com", "\"jan@example.com\""} -> "email"
    [] w = "06-12345678" -> "phone"
    [] OTHER -> None

\* the matched substring of a token, and its offset inside the token
PiiMatchText(w) == IF w = "\"jan@example.com\"" THEN "jan@example.com" ELSE w
PiiMatchOffset(w) == IF w = "\"jan@example.com\"" THEN 1 ELSE 0
PiiMatchLen(w) == IF w = "\"jan@example.com\"" THEN 15 ELSE WordLen(w)

MaskToken(type) ==
  CASE type = "email" -> "[EMAIL_MASKED]"
    [] type = "phone" -> "[PHONE_MASKED]"

RECURSIVE StartOf(_, _)
\* offset of token i in " ".join(text)
StartOf(text, i) ==
  IF i = 1 THEN 0 ELSE StartOf(text, i - 1) + WordLen(text[i - 1]) + 1

\* the positions of text, ascending
Indices(text) == [i \in 1..Len(text) |-> i]

\* PIIPatterns.find_all_pii: every match, sorted by start offset
find_all_pii(text) ==
  LET hit(i) == PiiType(text[i]) # None
      idx == SelectSeq(Indices(text), hit)
  IN [k \in 1..Len(idx) |->
        [type |-> PiiType(text[idx[k]]),
         match |-> PiiMatchText(text[idx[k]]),
         start |-> StartOf(text, idx[k]) + PiiMatchOffset(text[idx[k]]),
         end |-> StartOf(text, idx[k]) + PiiMatchOffset(text[idx[k]])
                 + PiiMatchLen(text[idx[k]]),
         masked_replacement |-> MaskToken(PiiType(text[idx[k]]))]]

\* ----------------------------------------------------------- sync_checks.py
RECURSIVE GroupByType(_, _)
\* PIIDetector.detect_pii: matches grouped by type, in order of first occurrence
GroupByType(matches, acc) ==
  IF matches = <<>> THEN acc
  ELSE LET m == Head(matches)
           known == \E k \in 1..Len(acc) : acc[k].type = m.type
           acc2 == IF known
                   THEN [k \in 1..Len(acc) |->
                           IF acc[k].type = m.type
                           THEN [acc[k] EXCEPT !.matches = Append(@, m.match)]
                           ELSE acc[k]]
                   ELSE Append(acc, [type |-> m.type, matches |-> <<m.match>>])
       IN GroupByType(Tail(matches), acc2)

detect_pii(text) == GroupByType(find_all_pii(text), <<>>)

\* SyncChecks.check_pii
check_pii(text) ==
  LET pii_found == detect_pii(text)
  IN [passed |-> Len(pii_found) = 0,
      violations |-> Len(pii_found),
      pii_found |-> pii_found]

\* no_go_patterns, in dictionary order; findall returns the group (s|vrij)?
\* of the "garantie" pattern, which is empty for the bare word
NoGoKeys == <<"garantie", "hey">>

NoGoMatch(key, w) ==
  CASE key = "garantie" /\ w = "garantie" -> ""
    [] key = "hey" /\ w = "hey" -> "hey"
    [] OTHER -> None

RECURSIVE NoGoScan(_, _)
NoGoScan(text, k) ==
  IF k > Len(NoGoKeys) THEN <<>>
  ELSE LET hit(i) == NoGoMatch(NoGoKeys[k], text[i]) # None
           idx == SelectSeq(Indices(text), hit)
       IN [j \in 1..Len(idx) |->
             [key |-> NoGoKeys[k], match |-> NoGoMatch(NoGoKeys[k], text[idx[j]])]]
          \o NoGoScan(text, k + 1)

\* SyncChecks.check_no_go_tokens
check_no_go_tokens(text) ==
  LET found_tokens == NoGoScan(text, 1)
  IN [passed |-> Len(found_tokens) = 0, found_tokens |-> found_tokens]

\* cta_patterns: only the first pattern (..|bellen|..) matches a token of Vocab
CtaMatch(w) == w \in {"bellen", "\"bellen\""}

\* check_cta_present with the loop demanding a match in every token
check_cta_present_all(text) ==
  LET cta_found == \A i \in 1..Len(text) : CtaMatch(text[i])
  IN [passed |-> cta_found]

\* SyncChecks.check_cta_present
check_cta_present(text) ==
  LET cta_found == \E i \in 1..Len(text) : CtaMatch(text[i])
  IN [passed |-> cta_found]

\* SyncChecks.check_word_limit
check_word_limit(text, max_words) ==
  LET word_count == Len(text)
  IN [passed |-> ~(word_count > max_words)]

\* json.loads(text): the value the text denotes, or a JSONDecodeError
json_loads(text) ==
  IF Len(text) = 1 /\ text[1] \in {"\"bellen\"", "\"jan@example.com\""}
  THEN "string"
  ELSE "JSONDecodeError"

\* the schemas a caller may pass: no schema, {}, {"type": "string"},
\* {"type": "number"} and the malformed {"type": "strin"}
Schemas == {None, "empty", "type_string", "type_number", "malformed"}

\* Python truthiness of the schema argument
Truthy(schema) == schema \notin {None, "empty"}

\* jsonschema.validate(instance, schema): check_schema first, then the instance
jsonschema_validate(instance, schema) ==
  IF schema = "malformed" THEN "SchemaError"
  ELSE IF schema = "type_string" /\ instance # "string" THEN "ValidationError"
  ELSE IF schema = "type_number" /\ instance # "number" THEN "ValidationError"
  ELSE "ok"

\* SyncChecks.validate_json_schema; raised is the exception that escapes
validate_json_schema(json_text, schema) ==
  LET data == json_loads(json_text)
      outcome == IF data = "JSONDecodeError" THEN data
                 ELSE jsonschema_validate(data, schema)
      violations == IF outcome = "JSONDecodeError" THEN <<"Ongeldige JSON">>
                    ELSE IF outcome = "ValidationError" THEN <<"Schema validatie fout">>
                    ELSE <<>>
  IN [raised |-> IF outcome = "SchemaError" THEN outcome ELSE None,
      passed |-> Len(violations) = 0,
      violations |-> violations]

Max(a, b) == IF a >= b THEN a ELSE b

\* max_words = None (the default of the parameter), as an integer
NoMaxWords == -1

\* max_words as a Python condition: None and 0 are false
MaxWordsSet(max_words) == max_words # NoMaxWords /\ max_words # 0

\* the severity chain at the end of run_all_checks
Severity(has_json_invalid, has_pii, has_policy_claims, has_missing_cta, has_length_violation, nogo_hits) ==
  IF has_json_invalid \/ has_pii \/ has_policy_claims \/ has_missing_cta
     \/ has_length_violation
  THEN "fail"
  ELSE IF Len(nogo_hits) > 0 THEN "warn"
  ELSE "pass"

NoChecks == [json_valid |-> TRUE, json_errors |-> <<>>, length_ok |-> TRUE,
             length_over_by |-> 0, nogo_hits |-> <<>>, pii_hits |-> <<>>,
             cta_present |-> TRUE, policy_claims |-> <<>>]

\* SyncChecks.run_all_checks (timings_ms left out: wall-clock readings)
run_all_checks(text, max_words, json_schema, cta_required) ==
  LET pii_result == check_pii(text)
      nogo_result == check_no_go_tokens(text)
      cta_passed == IF cta_required THEN check_cta_present(text).passed ELSE TRUE
      word_count == Len(text)
      length_ok == IF MaxWordsSet(max_words)
                   THEN check_word_limit(text, max_words).passed ELSE TRUE
      json_run == Truthy(json_schema)
      json_result == validate_json_schema(text, json_schema)
      checks == [json_valid |-> IF json_run THEN json_result.passed ELSE TRUE,
                 json_errors |-> IF json_run THEN json_result.violations ELSE <<>>,
                 length_ok |-> length_ok,
                 length_over_by |-> IF MaxWordsSet(max_words)
                                    THEN Max(0, word_count - max_words) ELSE 0,
                 nogo_hits |-> nogo_result.found_tokens,
                 pii_hits |-> pii_result.pii_found,
                 cta_present |-> cta_passed,
                 policy_claims |-> nogo_result.found_tokens]
      has_json_invalid == json_run /\ ~json_result.passed
      has_pii == Len(checks.pii_hits) > 0
      has_policy_claims == Len(checks.policy_claims) > 0
      has_missing_cta == cta_required /\ ~checks.cta_present
      has_length_violation == checks.length_over_by > 0
  IN IF json_run /\ json_result.raised # None
     THEN [raised |-> json_result.raised, word_count |-> word_count,
           checks |-> NoChecks, severity |-> None]
     ELSE [raised |-> None, word_count |-> word_count, checks |-> checks,
           severity |-> Severity(has_json_invalid, has_pii, has_policy_claims,
                                 has_missing_cta, has_length_violation,
                                 checks.nogo_hits)]

\* ------------------------------------------------- IEEE-754 binary64
(***************************************************************************)
(* Python floats are IEEE-754 doubles.  Every double that occurs in the    *)
(* score computation is 0 or lies in [2^-4, 32), so it is a whole number   *)
(* of units of 2^-56 below 2^61; it is held as <<hi, lo>> = hi*2^30 + lo   *)
(* units.  A double has 53 significant bits: a value in                    *)
(* [2^(52+j), 2^(53+j)) units is a multiple of 2^j, and each operation     *)
(* rounds its exact result to the nearest such multiple, ties to even.     *)
(***************************************************************************)
B30 == 1073741824

Zero == <<0, 0>>

AddN(x, y) ==
  LET l == x[2] + y[2] IN <<x[1] + y[1] + (l \div B30), l % B30>>

\* x - y for x >= y
SubN(x, y) ==
  IF x[2] >= y[2] THEN <<x[1] - y[1], x[2] - y[2]>>
  ELSE <<x[1] - y[1] - 1, x[2] + B30 - y[2]>>

Geq(x, y) == x[1] > y[1] \/ (x[1] = y[1] /\ x[2] >= y[2])

RECURSIVE MulSmall(_, _)
\* the exact product n * x for a small natural n
MulSmall(x, n) == IF n = 0 THEN Zero ELSE AddN(x, MulSmall(x, n - 1))

RECURSIVE Gran(_, _)
\* the j with x < 2^(53+j) units, from the high limb (2^53 = 2^23 * 2^30)
Gran(hi, j) == IF hi < 2^(23 + j) THEN j ELSE Gran(hi, j + 1)

\* round x (plus a non-zero fraction of a unit when sticky) to a multiple
\* of 2^j for j >= 1, ties to even
RoundTo(x, sticky, j) ==
  LET low == x[2] % (2^j)
      half == 2^(j - 1)
      base == <<x[1], x[2] - low>>
      up == AddN(base, <<0, 2^j>>)
      odd == (x[2] \div (2^j)) % 2 = 1
  IN IF low > half \/ (low = half /\ sticky) THEN up
     ELSE IF low = half /\ odd THEN up
     ELSE base

\* the double nearest to the exact whole number of units x
RoundExact(x) ==
  LET j == Gran(x[1], 0) IN IF j = 0 THEN x ELSE RoundTo(x, FALSE, j)

\* a + b and score * weight as Python computes them
FAdd(a, b) == RoundExact(AddN(a, b))
FMul(n, w) == RoundExact(MulSmall(w, n))

RECURSIVE IntQuot(_, _, _)
\* <<floor(r / b), r mod b>> by repeated subtraction (the quotient is small)
IntQuot(r, b, q) ==
  IF Geq(r, b) THEN IntQuot(SubN(r, b), b, q + 1) ELSE <<q, r>>

RECURSIVE FracBits(_, _, _)
\* long division, n more quotient bits: p = <<quotient, remainder>> so far
FracBits(p, b, n) ==
  IF n = 0 THEN p
  ELSE LET r2 == AddN(p[2], p[2])
           q2 == AddN(p[1], p[1])
       IN IF Geq(r2, b) THEN FracBits(<<AddN(q2, <<0, 1>>), SubN(r2, b)>>, b, n - 1)
          ELSE FracBits(<<q2, r2>>, b, n - 1)

\* a / b as Python computes it, for b > 0
FDiv(a, b) ==
  LET iq == IntQuot(a, b, 0)
      qr == FracBits(<<(<<0, iq[1]>>), iq[2]>>, b, 56)
      q == qr[1]
      r == qr[2]
      j == Gran(q[1], 0)
      r2 == AddN(r, r)
  IN IF j = 0
     THEN IF (r2 # b /\ Geq(r2, b)) \/ (r2 = b /\ q[2] % 2 = 1)
          THEN AddN(q, <<0, 1>>) ELSE q
     ELSE RoundTo(q, r # Zero, j)

\* ------------------------------------------------------------------ judge.py
\* RubricLoader._load_default_rubric: the criteria in dictionary order
Criteria == <<"style_match", "policy_safety", "pii_free", "structure_brevity",
              "personalization">>

\* the doubles 0.30, 0.20 and 0.10, in units of 2^-56
W30 == <<20132659, 214748364>>
W20 == <<13421772, 858993460>>
W10 == <<6710886, 429496730>>

Weights == <<W30, W30, W20, W10, W10>>

\* the same weights in hundredths, for the exact quotient
Hundredths == <<30, 30, 20, 10, 10>>

\* Judge.__init__: pass_threshold = 3.5
pass_threshold == <<234881024, 0>>

\* weighted_final_score = None
Null == <<>>

\* what a criterion entry of the response may hold under "score" besides a
\* number: no "score" key, or a value float() rejects
ScoreMissing == -1
ScoreNotNumeric == -2

\* and under "reason" besides text: no "reason" key, JSON null, a JSON number
ReasonMissing == "<no reason key>"
ReasonNull == "<null>"
ReasonNumber == "<number>"
GoodReason == "Zakelijke toon, sluit aan"
Placeholder == "Geen reden gegeven"

\* str.strip() on the reasons that occur
Strip(str) == IF str \in {"", "   "} THEN "" ELSE str

\* a criterion of the response: absent, present but not an object, or an object
Absent == [kind |-> "absent", score |-> ScoreMissing, reason |-> ReasonMissing]
NotObject == [kind |-> "not_object", score |-> ScoreMissing, reason |-> ReasonMissing]
Obj(score, reason) == [kind |-> "object", score |-> score, reason |-> reason]

RECURSIVE ParseFrom(_, _, _)
\* the loop of _parse_judge_response from criterion k on; an exception in
\* the loop body ends the loop and the scores collected so far are returned
ParseFrom(response, k, scores) ==
  IF k > Len(Criteria) THEN scores
  ELSE LET criterion_data == response[k] IN
    IF criterion_data.kind = "absent" THEN ParseFrom(response, k + 1, scores)
    ELSE IF criterion_data.kind = "not_object" THEN scores
    ELSE LET score_value == IF criterion_data.score = ScoreMissing THEN 0
                            ELSE criterion_data.score
             reason == IF criterion_data.reason = ReasonMissing THEN Placeholder
                       ELSE criterion_data.reason
         IN IF score_value = ScoreNotNumeric THEN scores
            ELSE ParseFrom(response, k + 1,
                   Append(scores, [criterion |-> Criteria[k], score |-> score_value,
                                   reason |-> reason, weight |-> Weights[k]]))

\* a criterion entry the loop body raises on: not an object, or a score
\* float() rejects
Malformed(criterion_data) ==
  \/ criterion_data.kind = "not_object"
  \/ criterion_data.kind = "object" /\ criterion_data.score = ScoreNotNumeric

\* _parse_judge_response giving no scores at all after a parse error
parse_judge_response_empty(response) ==
  IF \E k \in 1..Len(Criteria) : Malformed(response[k]) THEN <<>>
  ELSE ParseFrom(response, 1, <<>>)

\* Judge._parse_judge_response
parse_judge_response(response) == ParseFrom(response, 1, <<>>)

RECURSIVE validate_reasons(_)
\* Judge._validate_reasons: "True", "False", or the AttributeError of
\* calling strip() on a reason that is not text
validate_reasons(scores) ==
  IF scores = <<>> THEN "True"
  ELSE LET reason == Head(scores).reason IN
    IF reason \in {"", ReasonNull} THEN "False"
    ELSE IF reason = ReasonNumber THEN "AttributeError"
    ELSE IF Strip(reason) = "" \/ reason = Placeholder THEN "False"
    ELSE validate_reasons(Tail(scores))

RECURSIVE TotalWeighted(_)
TotalWeighted(scores) ==
  IF scores = <<>> THEN Zero
  ELSE LET n == Len(scores) IN
    FAdd(TotalWeighted(SubSeq(scores, 1, n - 1)), FMul(scores[n].score, scores[n].weight))

RECURSIVE TotalWeight(_)
TotalWeight(scores) ==
  IF scores = <<>> THEN Zero
  ELSE LET n == Len(scores) IN
    FAdd(TotalWeight(SubSeq(scores, 1, n - 1)), scores[n].weight)

\* the weighted score divided by 1.0 instead of the weights present
calculate_weighted_score_unit(criterion_scores) ==
  IF criterion_scores = <<>> THEN Zero ELSE TotalWeighted(criterion_scores)

\* Judge._calculate_weighted_score
calculate_weighted_score(criterion_scores) ==
  IF criterion_scores = <<>> THEN Zero
  ELSE LET total_weighted == TotalWeighted(criterion_scores)
           total_weight == TotalWeight(criterion_scores)
       IN IF total_weight # Zero THEN FDiv(total_weighted, total_weight) ELSE Zero

\* A call of evaluate_single ends with a JudgeResult or with an exception;
\* raised is None in the first case and names the exception in the second.

\* the failure result without its null score
FailedResult_zero(case_id, raw_response) ==
  [case_id |-> case_id, criterion_scores |-> <<>>, weighted_final_score |-> Zero,
   passed |-> FALSE, failed_judge_parse |-> TRUE, raw_response |-> raw_response,
   raised |-> None]

\* the failure result of evaluate_single
FailedResult(case_id, raw_response) ==
  [case_id |-> case_id, criterion_scores |-> <<>>, weighted_final_score |-> Null,
   passed |-> FALSE, failed_judge_parse |-> TRUE, raw_response |-> raw_response,
   raised |-> None]

\* an exception leaving evaluate_single
Raised(case_id, exception) ==
  [case_id |-> case_id, criterion_scores |-> <<>>, weighted_final_score |-> Null,
   passed |-> FALSE, failed_judge_parse |-> FALSE, raw_response |-> "",
   raised |-> exception]

\* the pass decision with a strict comparison
PassDecision_strict(weighted_score) ==
  weighted_score # pass_threshold /\ Geq(weighted_score, pass_threshold)

\* passed = weighted_score >= self.pass_threshold
PassDecision(weighted_score) == Geq(weighted_score, pass_threshold)

\* what client.judge(prompt) may do: raise (a timeout, a non-200 answer),
\* return the parse-error marker, return JSON that is not an object, or
\* return an object (with rubric entries, or only an "error" key)
RaisingKinds == {"timeout", "transport_error"}
NonObjectKinds == {"json_number", "json_null", "json_list", "json_string"}

\* evaluate_single rejecting a response without any rubric criterion
evaluate_single_strict(case_id, outcome) ==
  IF outcome.kind \in RaisingKinds THEN FailedResult(case_id, "str(e)")
  ELSE IF outcome.kind \in {"json_number", "json_null"}
  THEN FailedResult(case_id, "str(e)")     \* "error" in judge_response: TypeError
  ELSE IF outcome.kind = "marker" THEN FailedResult(case_id, "raw_response")
  ELSE LET criterion_scores == parse_judge_response(outcome.response)
           valid == validate_reasons(criterion_scores)
       IN IF valid = "AttributeError" THEN FailedResult(case_id, "str(e)")
          ELSE IF valid = "False" \/ criterion_scores = <<>> THEN FailedResult(case_id, "str(judge_response)")
          ELSE LET weighted_score == calculate_weighted_score(criterion_scores)
               IN [case_id |-> case_id, criterion_scores |-> criterion_scores,
                   weighted_final_score |-> weighted_score,
                   passed |-> PassDecision(weighted_score),
                   failed_judge_parse |-> FALSE, raw_response |-> "",
                   raised |-> None]

\* Judge.evaluate_single, the function under its decorator, from the judge
\* call on
evaluate_single(case_id, outcome) ==
  IF outcome.kind \in RaisingKinds THEN FailedResult(case_id, "str(e)")
  ELSE IF outcome.kind \in {"json_number", "json_null"}
  THEN FailedResult(case_id, "str(e)")     \* "error" in judge_response: TypeError
  ELSE IF outcome.kind = "marker" THEN FailedResult(case_id, "raw_response")
  ELSE LET criterion_scores == parse_judge_response(outcome.response)
           valid == validate_reasons(criterion_scores)
       IN IF valid = "AttributeError" THEN FailedResult(case_id, "str(e)")
          ELSE IF valid = "False" THEN FailedResult(case_id, "str(judge_response)")
          ELSE LET weighted_score == calculate_weighted_score(criterion_scores)
               IN [case_id |-> case_id, criterion_scores |-> criterion_scores,
                   weighted_final_score |-> weighted_score,
                   passed |-> PassDecision(weighted_score),
                   failed_judge_parse |-> FALSE, raw_response |-> "",
                   raised |-> None]

\* ----------------------------------------------------------------- tracing
\* The tracing collaborator as tracing_manager.langfuse sees it: None
\* ("absent"), a client all of whose calls succeed ("working"), or a client
\* one of whose calls raises, named by that call.
TracerModes == {"absent", "working", "start_span", "update", "end"}

\* wrapper of trace_judge_evaluation around evaluate_single: the JudgeResult
\* or the exception the caller gets, and the state the span is left in
trace_judge_evaluation(tracer, case_id, outcome) ==
  LET result == evaluate_single(case_id, outcome) IN
  IF tracer = "absent" THEN [result |-> result, span |-> "none"]
  ELSE IF tracer = "start_span"      \* create_trace raises, outside the try
  THEN [result |-> Raised(case_id, "tracing error"), span |-> "none"]
  ELSE IF tracer = "update"          \* span.update raises; except ends the span
  THEN [result |-> Raised(case_id, "tracing error"), span |-> "ended"]
  ELSE IF tracer = "end"             \* span.end raises, in try and in except
  THEN [result |-> Raised(case_id, "tracing error"), span |-> "open"]
  ELSE [result |-> result, span |-> "ended"]

\* ------------------------------------------------------- bounded inputs
MaxScore == 5          \* largest criterion score (the rubric scores 0-5)
MaxOdd == 1            \* irregular criterion entries per judge response
MaxCases == 3          \* longest batch

MaxWordsOpts == {NoMaxWords} \cup (0..MaxLimit)

GuardCalls == [text : Texts, max_words : MaxWordsOpts, json_schema : Schemas,
               cta_required : BOOLEAN]

Reasons == {GoodReason, "", "   ", Placeholder, ReasonMissing, ReasonNull,
            ReasonNumber}

\* well-formed entries with a genuine reason, and the irregular ones
PlainEntries == {Absent} \cup {Obj(n, GoodReason) : n \in {3, 4}}
OddEntries ==
  {NotObject, Obj(ScoreMissing, GoodReason), Obj(ScoreNotNumeric, GoodReason),
   Obj(ScoreNotNumeric, "")}
  \cup {Obj(4, r) : r \in Reasons \ {GoodReason}}

CritIdx == 1..Len(Criteria)

\* the responses whose irregular entries are exactly those at the positions S
ResponsesOdd(S) ==
  {[k \in CritIdx |-> IF k \in S THEN o[k] ELSE p[k]] :
     o \in [S -> OddEntries], p \in [CritIdx \ S -> PlainEntries]}

Responses ==
  UNION {ResponsesOdd(S) : S \in {T \in SUBSET CritIdx : Cardinality(T) <= MaxOdd}}

NoEntries == [k \in CritIdx |-> Absent]

\* responses with a malformed third criterion after a first criterion whose
\* reason is genuine, empty or a number
LateMalformed ==
  {[k \in CritIdx |-> IF k = 1 THEN Obj(4, r) ELSE IF k = 3 THEN m
                      ELSE Obj(3, GoodReason)] :
     r \in {GoodReason, "", ReasonNumber},
     m \in {NotObject, Obj(ScoreNotNumeric, GoodReason)}}

JudgeOutcomes ==
  {[kind |-> kd, response |-> NoEntries] :
     kd \in RaisingKinds \cup NonObjectKinds \cup {"marker", "error_only"}}
  \cup {[kind |-> "object", response |-> r] : r \in Responses \cup LateMalformed}

CaseIds == {"001", "002"}

\* the lists _parse_judge_response can hand to _calculate_weighted_score:
\* any subset of the rubric, in rubric order, with scores 0..MaxScore
ScoreLists ==
  {parse_judge_response([k \in CritIdx |->
       IF f[k] = ScoreMissing THEN Absent ELSE Obj(f[k], GoodReason)]) :
     f \in [CritIdx -> {ScoreMissing} \cup (0..MaxScore)]}

AllScored(n) == [kind |-> "object",
                 response |-> [k \in CritIdx |-> Obj(n, GoodReason)]]

\* what the delegate may do for one case of a batch
BatchOutcomes ==
  {[kind |-> kd, response |-> NoEntries] : kd \in RaisingKinds \cup {"marker"}}
  \cup {AllScored(4), AllScored(3),
        [kind |-> "object",
         response |-> [k \in CritIdx |-> Obj(4, IF k = 3 THEN "" ELSE GoodReason)]]}

CaseLists == UNION {[1..n -> CaseIds] : n \in 0..MaxCases}

\* ------------------------------------------------------------------ state
VARIABLES
  gCall,      \* the arguments of the run_all_checks call
  gPc,        \* "call": about to be called, "done": returned or raised
  gResult,    \* <<>> before the call; after it <<the record returned>>
  jCase,      \* case_id of the evaluate_single call
  jOutcome,   \* what the delegate's judge call does for it
  jTracer,    \* the tracing collaborator, one of TracerModes
  jSpan,      \* the span of trace_judge_evaluation: "none", "open", "ended"
  jPc,        \* "call", "done"
  jResult,    \* <<>> before the call; after it <<the JudgeResult>>
  sScores,    \* the argument of the _calculate_weighted_score call
  sPc,        \* "call", "done"
  sResult,    \* <<>> before the call; after it <<the float returned>>
  bCases,     \* the cases argument of evaluate_batch (their ids)
  bTracer,    \* the tracing collaborator, one of TracerModes
  bSpan,      \* the span of trace_batch_evaluation: "none", "open", "ended"
  bPc,        \* "call", "loop": in the for loop of _execute, "done": returned,
              \* "raised": evaluate_batch left by an exception
  bInFlight,  \* indices of the cases whose judge call is awaited
  bOutcomes,  \* what the delegate did for each judge call, in call order
  bResults,   \* the local list results of _execute
  bReturned,  \* <<>> until evaluate_batch returns; then <<the list returned>>
  aRows,      \* the results argument of the _aggregate_scores call
  aPc,        \* "call", "done"
  aResult,    \* <<>> before the call; after it <<the tuple returned>>
  rA,         \* results_a of the trace_regression_run call (baseline)
  rB,         \* results_b of the trace_regression_run call (candidate)
  rTracer,    \* the tracing collaborator, one of TracerModes
  rPc,        \* "call", "done"
  rSummary,   \* <<>> before the call; after it <<the summary or exception>>
  piiText,    \* the text given to the PII pattern library
  piiPc,      \* "call", "found", "masked", "done"
  piiMatches, \* the list find_all_pii(text) returned
  piiMasked,  \* the string mask_pii(text, matches) returned
  piiAgain,   \* <<>>; then <<what searching and masking the masked text gave>>
  tInput,     \* input_text of the traced evaluate_single call
  tOutput,    \* output_text of the traced evaluate_single call
  tTracer,    \* the tracing collaborator, one of TracerModes
  tPc,        \* "call", "traced"
  tHanded,    \* <<>>; then what create_trace called the collaborator with
  pContent,   \* generated_content: the cases with their generated output
  pPc,        \* "poc1", "gate": in the loop of that stage, "done"
  pIdx,       \* index of the case the running loop is at
  pPoc1,      \* poc1_results, the guardrail records made so far
  pJudgeCases,\* judge_cases, the cases the gate has let through so far
  pSkipped,   \* skipped_cases
  pSubmitted, \* <<>> until evaluate_batch is called; then <<its cases>>
  pResults,   \* what run_poc2_judge_evaluation returned
  cResults,   \* the results argument of results_to_csv
  cPc,        \* "call", "done"
  cRows,      \* the rows results_to_csv writes
  xFrozen,    \* the frozen dataset file: [state, rows], the state being
              \* "missing", "unreadable" or "present"
  xScoresA,   \* the scores file of variant A, likewise
  xScoresB,   \* the scores file of variant B, likewise
  xTracer,    \* the tracing collaborator, one of TracerModes
  xPc,        \* "validate", "load", "align", "compare", "save", "done"
  xCompared,  \* TRUE once trace_regression_run has been called
  xSummary,   \* <<>>; then <<the RegressionSummary returned>>
  xWritten,   \* <<>>; then <<the summary written to output_path>>
  xReturn,    \* <<>>; then <<what run_poc3_regression returned>>
  wStage,     \* the wrapper running: "judge", "batch", "regress"
  wFault,     \* the collaborator: "absent", "none" (working), or the call
              \* of it that raises
  wBody,      \* what the wrapped stage does: "returns", "raises"
  wPc,        \* the call the wrapper is about to make; "done" when it has left
  wSpan,      \* "none": no span started, "open", "ended"
  wEnds,      \* how many calls of span.end() have completed
  wOutcome,   \* "": still running, "returned", "raised"
  kRubric,    \* Judge.rubric.criteria of the shared Judge: the weights
  kThreshold, \* Judge.pass_threshold of the shared Judge
  kPatterns,  \* the pattern tables of the shared SyncChecks
  kText,      \* per evaluation: the text of its case
  kOutcome,   \* per evaluation: what the delegate's judge call does
  kPc,        \* per evaluation: "check", "call", "await", "parse",
              \* "validate", "score", "done"
  kGuard,     \* per evaluation: <<>>; then <<its guardrail record>>
  kScores,    \* per evaluation: the local criterion_scores
  kResult     \* per evaluation: <<>>; then <<its JudgeResult>>

guardVars == <<gCall, gPc, gResult>>
judgeVars == <<jCase, jOutcome, jTracer, jSpan, jPc, jResult>>
scoreVars == <<sScores, sPc, sResult>>
batchVars == <<bCases, bTracer, bSpan, bPc, bInFlight, bOutcomes, bResults,
               bReturned>>
aggVars == <<aRows, aPc, aResult>>
regressVars == <<rA, rB, rTracer, rPc, rSummary>>
piiVars == <<piiText, piiPc, piiMatches, piiMasked, piiAgain>>
previewVars == <<tInput, tOutput, tTracer, tPc, tHanded>>
pipeVars == <<pContent, pPc, pIdx, pPoc1, pJudgeCases, pSkipped, pSubmitted,
              pResults>>
csvVars == <<cResults, cPc, cRows>>
runVars == <<xFrozen, xScoresA, xScoresB, xTracer, xPc, xCompared, xSummary,
             xWritten, xReturn>>
spanVars == <<wStage, wFault, wBody, wPc, wSpan, wEnds, wOutcome>>
sharedVars == <<kRubric, kThreshold, kPatterns, kText, kOutcome, kPc, kGuard,
                kScores, kResult>>
lateVars == <<pipeVars, csvVars, runVars, spanVars, sharedVars>>
coreVars == <<guardVars, judgeVars, scoreVars, batchVars>>
restVars == <<aggVars, regressVars, piiVars, previewVars, lateVars>>
vars == <<guardVars, judgeVars, scoreVars, batchVars, restVars>>

GuardIdle ==
  /\ gCall = [text |-> <<>>, max_words |-> NoMaxWords, json_schema |-> None,
              cta_required |-> TRUE]
  /\ gPc = "off"
  /\ gResult = <<>>

JudgeIdle ==
  /\ jCase = "001"
  /\ jOutcome = [kind |-> "marker", response |-> NoEntries]
  /\ jTracer = "absent"
  /\ jSpan = "none"
  /\ jPc = "off"
  /\ jResult = <<>>

ScoreIdle ==
  /\ sScores = <<>>
  /\ sPc = "off"
  /\ sResult = <<>>

BatchIdle ==
  /\ bCases = <<>>
  /\ bTracer = "absent"
  /\ bSpan = "none"
  /\ bPc = "off"
  /\ bInFlight = {}
  /\ bOutcomes = <<>>
  /\ bResults = <<>>
  /\ bReturned = <<>>

AggIdle ==
  /\ aRows = <<>>
  /\ aPc = "off"
  /\ aResult = <<>>

RegressIdle ==
  /\ rA = <<>>
  /\ rB = <<>>
  /\ rTracer = "absent"
  /\ rPc = "off"
  /\ rSummary = <<>>

CoreIdle == GuardIdle /\ JudgeIdle /\ ScoreIdle /\ BatchIdle

PiiIdle ==
  /\ piiText = ""
  /\ piiPc = "off"
  /\ piiMatches = <<>>
  /\ piiMasked = ""
  /\ piiAgain = <<>>

PreviewIdle ==
  /\ tInput = ""
  /\ tOutput = ""
  /\ tTracer = "absent"
  /\ tPc = "off"
  /\ tHanded = <<>>

PipeIdle ==
  /\ pContent = <<>>
  /\ pPc = "off"
  /\ pIdx = 0
  /\ pPoc1 = <<>>
  /\ pJudgeCases = <<>>
  /\ pSkipped = <<>>
  /\ pSubmitted = <<>>
  /\ pResults = <<>>

CsvIdle ==
  /\ cResults = <<>>
  /\ cPc = "off"
  /\ cRows = <<>>

RunIdle ==
  /\ xFrozen = [state |-> "missing", rows |-> <<>>]
  /\ xScoresA = [state |-> "missing", rows |-> <<>>]
  /\ xScoresB = [state |-> "missing", rows |-> <<>>]
  /\ xTracer = "absent"
  /\ xPc = "off"
  /\ xCompared = FALSE
  /\ xSummary = <<>>
  /\ xWritten = <<>>
  /\ xReturn = <<>>

SpanIdle ==
  /\ wStage = "judge"
  /\ wFault = "absent"
  /\ wBody = "returns"
  /\ wPc = "off"
  /\ wSpan = "none"
  /\ wEnds = 0
  /\ wOutcome = ""

SharedIdle ==
  /\ kRubric = Weights
  /\ kThreshold = pass_threshold
  /\ kPatterns = <<>>
  /\ kText = <<>>
  /\ kOutcome = <<>>
  /\ kPc = <<>>
  /\ kGuard = <<>>
  /\ kScores = <<>>
  /\ kResult = <<>>

LateIdle == PipeIdle /\ CsvIdle /\ RunIdle /\ SpanIdle /\ SharedIdle

RestIdle == AggIdle /\ RegressIdle /\ PiiIdle /\ PreviewIdle /\ LateIdle

InitGuard ==
  /\ gCall \in GuardCalls
  /\ gPc = "call"
  /\ gResult = <<>>
  /\ JudgeIdle /\ ScoreIdle /\ BatchIdle /\ RestIdle

\* one call of run_all_checks by a caller (run_poc1_guardrails, run_live_poc_test)
RunAllChecks ==
  /\ gPc = "call"
  /\ gPc' = "done"
  /\ gResult' = <<run_all_checks(gCall.text, gCall.max_words, gCall.json_schema,
                                 gCall.cta_required)>>
  /\ UNCHANGED <<gCall, judgeVars, scoreVars, batchVars, restVars>>

NextGuard == RunAllChecks

SpecGuard == InitGuard /\ [][NextGuard]_vars

InitJudge ==
  /\ GuardIdle /\ ScoreIdle /\ BatchIdle /\ RestIdle
  /\ jCase \in CaseIds
  /\ jOutcome \in JudgeOutcomes
  /\ jTracer \in TracerModes
  /\ jSpan = "none"
  /\ jPc = "call"
  /\ jResult = <<>>

\* one call of the decorated evaluate_single: trace_judge_evaluation opens a
\* span when the tracer is there, runs the function, closes the span and
\* hands the result, or an exception, to the caller
EvaluateSingle ==
  /\ jPc = "call"
  /\ jPc' = "done"
  /\ jResult' = <<trace_judge_evaluation(jTracer, jCase, jOutcome).result>>
  /\ jSpan' = trace_judge_evaluation(jTracer, jCase, jOutcome).span
  /\ UNCHANGED <<jCase, jOutcome, jTracer, guardVars, scoreVars, batchVars, restVars>>

NextJudge == EvaluateSingle

SpecJudge == InitJudge /\ [][NextJudge]_vars

InitScore ==
  /\ GuardIdle /\ JudgeIdle /\ BatchIdle /\ RestIdle
  /\ sScores \in ScoreLists
  /\ sPc = "call"
  /\ sResult = <<>>

\* one call of _calculate_weighted_score
CalculateWeightedScore ==
  /\ sPc = "call"
  /\ sPc' = "done"
  /\ sResult' = <<calculate_weighted_score(sScores)>>
  /\ UNCHANGED <<sScores, guardVars, judgeVars, batchVars, restVars>>

NextScore == CalculateWeightedScore

SpecScore == InitScore /\ [][NextScore]_vars

InitBatch ==
  /\ GuardIdle /\ JudgeIdle /\ ScoreIdle /\ RestIdle
  /\ bCases \in CaseLists
  /\ bTracer \in TracerModes
  /\ bSpan = "none"
  /\ bPc = "call"
  /\ bInFlight = {}
  /\ bOutcomes = <<>>
  /\ bResults = <<>>
  /\ bReturned = <<>>

\* the state the span of a wrapper is in after its except branch has run
SpanAfterExcept(tracer) == IF tracer = "end" THEN "open" ELSE "ended"

\* evaluate_batch is called: the wrapper of trace_batch_evaluation creates
\* the batch trace and enters _execute
BatchEnter ==
  /\ bPc = "call"
  /\ bPc' = IF bTracer = "start_span" THEN "raised" ELSE "loop"
  /\ bSpan' = IF bTracer \in {"absent", "start_span"} THEN "none" ELSE "open"
  /\ UNCHANGED <<bCases, bTracer, bInFlight, bOutcomes, bResults, bReturned,
                 guardVars, judgeVars, scoreVars, restVars>>

\* a batch loop that does not await each call before it starts the next
\* (asyncio.gather over the cases)
BatchCallJudge_gather ==
  /\ bPc = "loop"
  /\ \E i \in (1..Len(bCases)) \ bInFlight :
       /\ i > Len(bResults)
       /\ bInFlight' = bInFlight \cup {i}
  /\ UNCHANGED <<bCases, bTracer, bSpan, bPc, bOutcomes, bResults, bReturned,
                 guardVars, judgeVars, scoreVars, restVars>>

\* _execute, next loop iteration: evaluate_single is called for the next
\* case and suspends in await client.judge(...)
BatchCallJudge ==
  /\ bPc = "loop"
  /\ bInFlight = {}
  /\ Len(bResults) < Len(bCases)
  /\ bInFlight' = {Len(bResults) + 1}
  /\ UNCHANGED <<bCases, bTracer, bSpan, bPc, bOutcomes, bResults, bReturned,
                 guardVars, judgeVars, scoreVars, restVars>>

\* the judge call of the awaited case ends (returns or raises);
\* evaluate_single turns it into a JudgeResult and _execute appends it; an
\* exception out of the decorated evaluate_single leaves the loop, runs the
\* except branch of the batch wrapper and leaves evaluate_batch
BatchAppendResult ==
  \E i \in bInFlight, outcome \in BatchOutcomes :
    LET result == trace_judge_evaluation(bTracer, bCases[i], outcome).result IN
    /\ bPc = "loop"
    /\ bOutcomes' = Append(bOutcomes, outcome)
    /\ bInFlight' = {}
    /\ bResults' = IF result.raised = None THEN Append(bResults, result)
                   ELSE bResults
    /\ bPc' = IF result.raised = None THEN "loop" ELSE "raised"
    /\ bSpan' = IF result.raised = None THEN bSpan ELSE SpanAfterExcept(bTracer)
    /\ UNCHANGED <<bCases, bTracer, bReturned, guardVars, judgeVars, scoreVars, restVars>>

\* the loop is over: _execute returns results, the batch wrapper updates and
\* ends its span and evaluate_batch returns; a raising span call sends it
\* through the except branch instead
BatchReturn ==
  /\ bPc = "loop"
  /\ bInFlight = {}
  /\ Len(bResults) = Len(bCases)
  /\ bPc' = IF bTracer \in {"update", "end"} THEN "raised" ELSE "done"
  /\ bReturned' = IF bTracer \in {"update", "end"} THEN <<>> ELSE <<bResults>>
  /\ bSpan' = IF bTracer = "absent" THEN "none" ELSE SpanAfterExcept(bTracer)
  /\ UNCHANGED <<bCases, bTracer, bInFlight, bOutcomes, bResults,
                 guardVars, judgeVars, scoreVars, restVars>>

NextBatch == BatchEnter \/ BatchCallJudge \/ BatchAppendResult \/ BatchReturn

SpecBatch == InitBatch /\ [][NextBatch]_vars

\* ------------------------------------------------- guardrail properties
GuardDone == gPc = "done"
GuardOut == gResult[1]

HasPii == Len(find_all_pii(gCall.text)) > 0
HasNoGo == Len(check_no_go_tokens(gCall.text).found_tokens) > 0
HasCta == \E i \in 1..Len(gCall.text) : CtaMatch(gCall.text[i])
WithinLimit == gCall.max_words = NoMaxWords \/ Len(gCall.text) <= gCall.max_words
JsonAccepted ==
  \/ gCall.json_schema = None
  \/ /\ json_loads(gCall.text) # "JSONDecodeError"
     /\ jsonschema_validate(json_loads(gCall.text), gCall.json_schema) = "ok"

\* C1: whenever find_all_pii reports at least one match in the text,
\* run_all_checks returns severity "fail", whatever the other checks say.
C1_PiiAlwaysFails ==
  (GuardDone /\ HasPii) => GuardOut.severity = "fail"

\* C2: a text with a forbidden-token hit and no other violation (no PII, JSON
\* accepted or no schema, call-to-action present or not required, word count
\* within the limit) gets severity "warn", never "fail".
C2_NoGoAloneWarns ==
  (GuardDone /\ HasNoGo /\ ~HasPii /\ JsonAccepted
     /\ (HasCta \/ ~gCall.cta_required) /\ WithinLimit)
  => GuardOut.severity = "warn"

\* C3 as stated: zero PII matches, zero forbidden-token hits, a present
\* call-to-action and a word count within the limit give severity "pass".
C3_CleanTextPasses_Original ==
  (GuardDone /\ ~HasPii /\ ~HasNoGo /\ HasCta /\ WithinLimit)
  => GuardOut.severity = "pass"

\* C3 (amended): zero PII matches, zero forbidden-token hits, a present
\* call-to-action, a word count within the limit and, when a JSON schema is
\* passed, a text that parses as JSON and validates against it, give
\* severity "pass".
C3_CleanTextPasses ==
  (GuardDone /\ ~HasPii /\ ~HasNoGo /\ HasCta /\ WithinLimit /\ JsonAccepted)
  => GuardOut.severity = "pass"

\* a clean JSON text with a call-to-action, checked against a schema, passed
C3_Witness ==
  /\ GuardDone /\ ~HasPii /\ ~HasNoGo /\ HasCta /\ WithinLimit
  /\ gCall.json_schema = "type_string" /\ gCall.max_words = 1
  /\ gCall.cta_required
  /\ GuardOut.severity = "pass"

\* C4: run_all_checks raises nothing for any text and configuration; it
\* returns a record with a severity of pass, warn or fail, and a malformed
\* schema or a text that is not JSON shows as json_valid = FALSE with a
\* non-empty json_errors.
C4_NeverRaises ==
  GuardDone =>
    /\ GuardOut.raised = None
    /\ GuardOut.severity \in {"pass", "warn", "fail"}
    /\ (Truthy(gCall.json_schema)
          /\ (gCall.json_schema = "malformed"
               \/ json_loads(gCall.text) = "JSONDecodeError"))
        => (~GuardOut.checks.json_valid /\ Len(GuardOut.checks.json_errors) > 0)

\* ----------------------------------------------------- judge properties
JudgeDone == jPc = "done"
JudgeOut == jResult[1]

\* C5: a JudgeResult with failed_judge_parse has a null score, passed = FALSE
\* and no criterion scores, on every return path of evaluate_single.
C5_FailedParseInvariant ==
  (JudgeDone /\ JudgeOut.raised = None /\ JudgeOut.failed_judge_parse)
  => /\ JudgeOut.weighted_final_score = Null
     /\ ~JudgeOut.passed
     /\ JudgeOut.criterion_scores = <<>>

\* a response rejected by the reason validation gave a failed result
C5_Witness ==
  /\ JudgeDone /\ jOutcome.kind = "object"
  /\ JudgeOut.failed_judge_parse /\ JudgeOut.raw_response = "str(judge_response)"

\* C6: whatever the delegate's judge call does, evaluate_single returns a
\* JudgeResult for the case and lets no exception through; if the call
\* raised or returned the parse-error marker, failed_judge_parse is TRUE.
C6_NoExceptionEscapes ==
  JudgeDone =>
    /\ JudgeOut.raised = None
    /\ JudgeOut.case_id = jCase
    /\ (jOutcome.kind \in RaisingKinds \cup {"marker"}) => JudgeOut.failed_judge_parse

BlankReasons == {ReasonMissing, "", "   ", Placeholder}

\* C7: if a rubric criterion that appears in the response has a missing,
\* empty, whitespace-only or placeholder reason, the whole response is
\* rejected: failed_judge_parse, null score, not passed, no criterion scores.
C7_BlankReasonRejects ==
  (JudgeDone /\ jOutcome.kind = "object"
     /\ \E k \in CritIdx : /\ jOutcome.response[k].kind = "object"
                           /\ jOutcome.response[k].reason \in BlankReasons)
  => /\ JudgeOut.failed_judge_parse
     /\ JudgeOut.weighted_final_score = Null
     /\ ~JudgeOut.passed
     /\ JudgeOut.criterion_scores = <<>>

\* C8: a result without failed_judge_parse has a numeric score and passed is
\* TRUE exactly when that score is >= 3.5; passed is never TRUE without a
\* numeric score.
C8_PassThreshold ==
  (JudgeDone /\ JudgeOut.raised = None) =>
    /\ ~JudgeOut.failed_judge_parse =>
         /\ JudgeOut.weighted_final_score # Null
         /\ JudgeOut.passed <=> Geq(JudgeOut.weighted_final_score, pass_threshold)
    /\ JudgeOut.passed => JudgeOut.weighted_final_score # Null

\* a score of exactly 3.5 passed
C8_Witness ==
  /\ JudgeDone /\ ~JudgeOut.failed_judge_parse
  /\ JudgeOut.weighted_final_score = pass_threshold /\ JudgeOut.passed

\* ------------------------------------------------ weighted score properties
ScoreDone == sPc = "done"
ScoreOut == sResult[1]

WeightHundredths(criterion) ==
  LET k == CHOOSE i \in CritIdx : Criteria[i] = criterion IN Hundredths[k]

RECURSIVE SumSW(_)
\* the exact sum of score_i * weight_i, in hundredths
SumSW(scores) ==
  IF scores = <<>> THEN 0
  ELSE Head(scores).score * WeightHundredths(Head(scores).criterion)
       + SumSW(Tail(scores))

RECURSIVE SumW(_)
\* the exact sum of the weights present, in hundredths
SumW(scores) ==
  IF scores = <<>> THEN 0
  ELSE WeightHundredths(Head(scores).criterion) + SumW(Tail(scores))

\* floor(2^56 * n / d): the exact quotient n / d in units of 2^-56
ExactUnits(n, d) ==
  FracBits(<<(<<0, n \div d>>), (<<0, n % d>>)>>, <<0, d>>, 56)[1]

\* the integer n as a double, in units of 2^-56
FromInt(n) == <<n * 67108864, 0>>

\* 2^-40, in units of 2^-56
Tolerance == <<0, 65536>>

\* |x - y| <= Tolerance
Close(x, y) ==
  IF Geq(x, y) THEN Geq(AddN(y, Tolerance), x) ELSE Geq(AddN(x, Tolerance), y)

MinScore(scores) ==
  CHOOSE m \in {scores[k].score : k \in 1..Len(scores)} :
    \A k \in 1..Len(scores) : m <= scores[k].score
MaxScoreOf(scores) ==
  CHOOSE m \in {scores[k].score : k \in 1..Len(scores)} :
    \A k \in 1..Len(scores) : m >= scores[k].score

AllScoresAre(scores, n) ==
  Len(scores) = Len(Criteria) /\ \A k \in 1..Len(scores) : scores[k].score = n

QuotientAndDefaults ==
  /\ Close(ScoreOut, ExactUnits(SumSW(sScores), SumW(sScores)))
  /\ AllScoresAre(sScores, 5) => ScoreOut = FromInt(5)
  /\ AllScoresAre(sScores, 0) => ScoreOut = Zero

\* C9 as stated: for a non-empty list the result is
\* sum(score_i * weight_i) / sum(weight_i) over the weights present,
\* [5,5,5,5,5] gives 5.0 and [0,0,0,0,0] gives 0.0 under the default rubric,
\* and the result lies between the smallest and the largest criterion score.
C9_WeightedScore_Original ==
  (ScoreDone /\ sScores # <<>>) =>
    /\ QuotientAndDefaults
    /\ Geq(ScoreOut, FromInt(MinScore(sScores)))
    /\ Geq(FromInt(MaxScoreOf(sScores)), ScoreOut)

\* C9 (amended): for a non-empty list of scores the result is the double
\* computation of sum(score_i * weight_i) / sum(weight_i) over the weights
\* present: it is within 2^-40 of the exact quotient, [5,5,5,5,5] gives
\* exactly 5.0 and [0,0,0,0,0] exactly 0.0 under the default rubric, and it
\* lies between the smallest and the largest criterion score up to that
\* rounding error, not exactly.
C9_WeightedScore ==
  (ScoreDone /\ sScores # <<>>) =>
    /\ QuotientAndDefaults
    /\ Geq(AddN(ScoreOut, Tolerance), FromInt(MinScore(sScores)))
    /\ Geq(AddN(FromInt(MaxScoreOf(sScores)), Tolerance), ScoreOut)

\* a partial rubric whose result is not the largest score itself
C9_Witness ==
  /\ ScoreDone /\ Len(sScores) = 1 /\ sScores[1].score = 3
  /\ sScores[1].criterion = "pii_free"
  /\ ScoreOut # FromInt(3)
  /\ Close(ScoreOut, FromInt(3))

\* ----------------------------------------------------- batch properties
\* C10: evaluate_batch returns one JudgeResult per case, in input order, and
\* never raises; a failing judge call gives a failed result for its own case
\* only: every case, before or after it, has had its judge call and holds the
\* result of that call alone.
C10_BatchOrderAndIsolation ==
  /\ bPc # "raised"
  /\ bPc = "done" =>
       LET results == bReturned[1] IN
       /\ Len(results) = Len(bCases)
       /\ Len(bOutcomes) = Len(bCases)
       /\ \A i \in 1..Len(bCases) :
            /\ results[i].case_id = bCases[i]
            /\ results[i].failed_judge_parse
                 <=> (bOutcomes[i].kind \in RaisingKinds \cup {"marker"}
                      \/ validate_reasons(parse_judge_response(bOutcomes[i].response))
                           # "True")
            /\ ~results[i].failed_judge_parse
                 => results[i].weighted_final_score # Null

\* ------------------------------------------------ regression comparator
\* A row of a result collection as run_poc3_regress hands it over
\* (DataFrame.to_dict('records')): the fields final_score, passed and
\* failed_judge_parse. final_score is a double or one of these:
FinalNone == <<-1, 0>>      \* None
FinalEmpty == <<-2, 0>>     \* ""
FinalText == <<-3, 0>>      \* "PARSE_FAILED", the cell results_to_csv writes
NaN == <<-4, 0>>            \* float("nan"): an empty cell read by pandas

\* a boolean-like field: a bool, a string, or no such key
PyTrue == "<True>"
PyFalse == "<False>"
FieldMissing == "<missing>"

\* str(item.get(key, ""))
py_str(v) ==
  CASE v = PyTrue -> "True"
    [] v = PyFalse -> "False"
    [] v = FieldMissing -> ""
    [] OTHER -> v

\* str.lower
py_lower(v) ==
  CASE v \in {"True", "TRUE"} -> "true"
    [] v \in {"False", "FALSE"} -> "false"
    [] OTHER -> v

\* n / 100 as a double
FromHundredths(n) == FDiv(<<0, n>>, <<0, 100>>)

\* a + b on doubles that may be nan
FAddNaN(a, b) == IF a = NaN \/ b = NaN THEN NaN ELSE FAdd(a, b)

RECURSIVE AggregateFrom(_, _)
\* the for loop of _aggregate_scores
AggregateFrom(results, acc) ==
  IF results = <<>> THEN acc
  ELSE LET item == Head(results)
           raw_score == item.final_score
       IN IF raw_score \in {FinalNone, FinalEmpty}   \* continue
          THEN AggregateFrom(Tail(results), acc)
          ELSE IF raw_score = FinalText              \* ValueError: continue
          THEN AggregateFrom(Tail(results), acc)
          ELSE AggregateFrom(Tail(results),
                 [scores |-> Append(acc.scores, raw_score),
                  passed |-> acc.passed
                    + (IF py_lower(py_str(item.passed)) = "true" THEN 1 ELSE 0),
                  parse_failed |-> acc.parse_failed
                    + (IF py_lower(py_str(item.failed_judge_parse)) = "true"
                       THEN 1 ELSE 0)])

RECURSIVE FSum(_, _)
\* sum(scores), added from the left
FSum(scores, total) ==
  IF scores = <<>> THEN total
  ELSE FSum(Tail(scores), FAddNaN(total, Head(scores)))

\* RegressionTracer._aggregate_scores
aggregate_scores(results) ==
  LET acc == AggregateFrom(results, [scores |-> <<>>, passed |-> 0,
                                     parse_failed |-> 0])
      total == FSum(acc.scores, Zero)
  IN [avg_score |-> IF acc.scores = <<>> THEN Zero
                    ELSE IF total = NaN THEN NaN
                    ELSE FDiv(total, FromInt(Len(acc.scores))),
      passed |-> acc.passed,
      parse_failed |-> acc.parse_failed]

\* 0.25
promotion_threshold == <<16777216, 0>>

\* avg_b - avg_a >= 0.25 on doubles
ImprovementMeets(avg_a, avg_b) ==
  /\ avg_a # NaN /\ avg_b # NaN
  /\ Geq(avg_b, avg_a)
  /\ Geq(RoundExact(SubN(avg_b, avg_a)), promotion_threshold)

\* improvement_pct = (score_improvement / avg_a * 100) if avg_a else 0.0,
\* rounded to two decimals: the float 0.0 for a baseline average of 0,
\* otherwise the quotient, kept as the pair it is computed from
improvement_percentage(avg_a, avg_b) ==
  IF avg_a = Zero THEN [kind |-> "float", val |-> Zero]
  ELSE [kind |-> "quotient", val |-> <<avg_b, avg_a>>]

\* RegressionTracer.trace_regression_run: the summary returned, or the
\* exception raised when a call of the tracing collaborator raises. The
\* summary's avg_score fields are these averages rounded to three decimals.
trace_regression_run(tracer, results_a, results_b) ==
  LET a == aggregate_scores(results_a)
      b == aggregate_scores(results_b)
      meets_threshold == /\ ImprovementMeets(a.avg_score, b.avg_score)
                         /\ b.parse_failed <= a.parse_failed
  IN [raised |-> IF tracer \in {"absent", "working"} THEN None
                 ELSE "tracing error",
      span |-> IF tracer \in {"absent", "start_span"} THEN "none"
               ELSE SpanAfterExcept(tracer),
      variant_a |-> a,
      variant_b |-> b,
      improvement_percentage |-> improvement_percentage(a.avg_score, b.avg_score),
      meets_promotion_threshold |-> meets_threshold]

\* one row with the score itself under final_score, null included
CsvRow_score(result) ==
  [final_score |-> result.weighted_final_score,
   passed |-> IF result.passed THEN PyTrue ELSE PyFalse,
   failed_judge_parse |-> IF result.failed_judge_parse THEN PyTrue ELSE PyFalse]

\* Judge.results_to_csv, one row
CsvRow(result) ==
  [final_score |-> IF result.failed_judge_parse THEN FinalText
                   ELSE result.weighted_final_score,
   passed |-> IF result.passed THEN PyTrue ELSE PyFalse,
   failed_judge_parse |-> IF result.failed_judge_parse THEN PyTrue ELSE PyFalse]

\* Judge.results_to_csv followed by the reading of run_poc3_regress
results_to_csv(results) == [i \in 1..Len(results) |-> CsvRow(results[i])]

\* ---------------------------------------- bounded inputs of the comparator
MaxRows == 2           \* longest collection aggregated
MaxRunRows == 2        \* longest collection of a regression run

RowLists(rows, n) == UNION {[1..k -> rows] : k \in 0..n}

AggHundredths == {300, 400}
AggScores ==
  {FinalNone, FinalEmpty, FinalText, NaN}
    \cup {FromHundredths(n) : n \in AggHundredths}
AggRows ==
  [final_score : AggScores, passed : {PyTrue, PyFalse, "true"},
   failed_judge_parse : {PyTrue, PyFalse, "true", "True"}]

RunHundredths == {10, 35, 100, 300, 320, 323}
Scored(n, failed) ==
  [final_score |-> FromHundredths(n),
   passed |-> IF n >= 350 THEN PyTrue ELSE PyFalse,
   failed_judge_parse |-> failed]
\* the rows results_to_csv writes for the results of evaluate_single
ExportRows == {CsvRow(evaluate_single("001", o)) : o \in BatchOutcomes}
\* rows of a regression run: exported rows, rows with other scores, two
\* scored rows flagged as parse failures, and a row with an empty score cell
RunRows ==
  {Scored(n, PyFalse) : n \in RunHundredths}
    \cup {Scored(300, PyTrue), Scored(320, PyTrue)}
    \cup ExportRows
    \cup {[final_score |-> NaN, passed |-> PyTrue, failed_judge_parse |-> PyFalse]}

\* ------------------------------------------------ comparator state machine
InitAggregate ==
  /\ CoreIdle /\ RegressIdle /\ PiiIdle /\ PreviewIdle /\ LateIdle
  /\ aRows \in RowLists(AggRows, MaxRows)
  /\ aPc = "call"
  /\ aResult = <<>>

\* one call of _aggregate_scores
AggregateScores ==
  /\ aPc = "call"
  /\ aPc' = "done"
  /\ aResult' = <<aggregate_scores(aRows)>>
  /\ UNCHANGED <<aRows, coreVars, regressVars, piiVars, previewVars, lateVars>>

NextAggregate == AggregateScores

SpecAggregate == InitAggregate /\ [][NextAggregate]_vars

InitRegress ==
  /\ CoreIdle /\ AggIdle /\ PiiIdle /\ PreviewIdle /\ LateIdle
  /\ rA \in RowLists(RunRows, MaxRunRows)
  /\ rB \in RowLists(RunRows, MaxRunRows)
  /\ rTracer \in TracerModes
  /\ rPc = "call"
  /\ rSummary = <<>>

\* one call of trace_regression_run by run_poc3_regress
TraceRegressionRun ==
  /\ rPc = "call"
  /\ rPc' = "done"
  /\ rSummary' = <<trace_regression_run(rTracer, rA, rB)>>
  /\ UNCHANGED <<rA, rB, rTracer, coreVars, aggVars, piiVars, previewVars, lateVars>>

NextRegress == TraceRegressionRun

SpecRegress == InitRegress /\ [][NextRegress]_vars

\* ------------------------------------------------ comparator properties
AggDone == aPc = "done"
AggOut == aResult[1]
RegressDone == rPc = "done" /\ rSummary[1].raised = None
RegressOut == rSummary[1]

\* a boolean-like field that is true: the bool, or the string "true"/"True"
TrueLike(v) == v \in {PyTrue, "true", "True"}
\* a final score that is a number
Numeric(x) == x \notin {FinalNone, FinalEmpty, FinalText, NaN}

NumericRow(row) == Numeric(row.final_score)
FailedCount(rows) ==
  Cardinality({i \in 1..Len(rows) : TrueLike(rows[i].failed_judge_parse)})
PassedCount(rows) ==
  Cardinality({i \in 1..Len(rows) : TrueLike(rows[i].passed)})
NumericCount(rows) ==
  Cardinality({i \in 1..Len(rows) : NumericRow(rows[i])})

\* the decimal score a double stands for, in hundredths
ScoreHundredths == RunHundredths \cup AggHundredths
HundredthsTable == [n \in ScoreHundredths |-> FromHundredths(n)]
HundredthsOf(x) == CHOOSE n \in ScoreHundredths : Close(HundredthsTable[n], x)

RECURSIVE SumHundredths(_)
\* the exact sum of the numeric scores of a collection, in hundredths
SumHundredths(rows) ==
  IF rows = <<>> THEN 0
  ELSE (IF NumericRow(Head(rows)) THEN HundredthsOf(Head(rows).final_score)
        ELSE 0) + SumHundredths(Tail(rows))

\* mean(b) - mean(a) >= 0.25 in exact arithmetic, an empty mean being 0
ExactImprovementMeets(a, b) ==
  LET na == Max(1, NumericCount(a))
      nb == Max(1, NumericCount(b))
  IN 4 * (SumHundredths(b) * na - SumHundredths(a) * nb) >= 100 * na * nb

\* C11: meets_promotion_threshold is true exactly when the candidate average
\* minus the baseline average is >= 0.25 and the candidate's parse-failure
\* count is <= the baseline's (1.00 vs 3.23 gives true with no more
\* failures, 3.00 vs 3.20 gives false for every pair of counts).
C11_PromotionRule ==
  RegressDone =>
    (RegressOut.meets_promotion_threshold
       <=> /\ ExactImprovementMeets(rA, rB)
           /\ RegressOut.variant_b.parse_failed
                <= RegressOut.variant_a.parse_failed)

\* C12: the parse-failure count is the number of rows whose
\* failed_judge_parse is true (bool or "true"/"True") and the pass count the
\* number of rows whose passed is true, over all rows of the collection,
\* those with a null, empty or non-numeric final score included.
C12_TalliesOverAllRows ==
  AggDone =>
    /\ AggOut.parse_failed = FailedCount(aRows)
    /\ AggOut.passed = PassedCount(aRows)

IsExport(rows) == \A i \in 1..Len(rows) : rows[i] \in ExportRows

\* C13: for two result sets exported with results_to_csv, a candidate set
\* with more parse-failed cases than the baseline set never meets the
\* promotion threshold, however large the score improvement.
C13_MoreFailuresBlockPromotion ==
  (RegressDone /\ IsExport(rA) /\ IsExport(rB)
     /\ FailedCount(rB) > FailedCount(rA))
  => ~RegressOut.meets_promotion_threshold

\* C14: for a collection with at least one numeric score the average is the
\* mean of exactly the rows with a numeric final score; rows whose score is
\* null, empty or not a number are in neither numerator nor denominator.
C14_MeanOfNumericRows ==
  (AggDone /\ NumericCount(aRows) > 0) =>
    /\ AggOut.avg_score # NaN
    /\ Close(AggOut.avg_score,
             ExactUnits(SumHundredths(aRows),
                        100 * NumericCount(aRows)))

\* ======================================================================
\* PII pattern library on character strings (eval/src/pii_patterns.py).
\* A text is a string; offsets count from 0 as in the source, At(text, i) is
\* the character at offset i and PySlice(text, a, b) is text[a:b].
\* ======================================================================
Digits == <<"0", "1", "2", "3", "4", "5", "6", "7", "8", "9">>
LowerCase == <<"a", "b", "c", "d", "e", "f", "g", "h", "i", "j", "k", "l", "m", "n", "o", "p", "q", "r", "s", "t", "u", "v", "w", "x", "y", "z">>
UpperCase == <<"A", "B", "C", "D", "E", "F", "G", "H", "I", "J", "K", "L", "M", "N", "O", "P", "Q", "R", "S", "T", "U", "V", "W", "X", "Y", "Z">>

DigitChars == {Digits[k] : k \in 1..10}
Letters == {LowerCase[k] : k \in 1..26} \cup {UpperCase[k] : k \in 1..26}
AlnumChars == DigitChars \cup Letters
WordChars == AlnumChars \cup {"_"}

\* int(digit) for one decimal digit
int(digit) == (CHOOSE k \in 1..10 : Digits[k] = digit) - 1

\* one character under re.IGNORECASE
lower(c) == IF \E k \in 1..26 : UpperCase[k] = c THEN LowerCase[CHOOSE k \in 1..26 : UpperCase[k] = c] ELSE c

RECURSIVE IgnoreCase(_)
IgnoreCase(s) == IF s = "" THEN "" ELSE lower(Head(s)) \o IgnoreCase(Tail(s))

Min(a, b) == IF a <= b THEN a ELSE b

At(text, i) == IF i >= 0 /\ i < Len(text) THEN SubSeq(text, i + 1, i + 1) ELSE ""

PySlice(text, a, b) == SubSeq(text, Min(a, Len(text)) + 1, Min(b, Len(text)))

\* \b at offset i
WordBoundary(text, i) == (At(text, i - 1) \in WordChars) # (At(text, i) \in WordChars)

\* [0-9]{k} at offset i
DigitsAt(text, i, k) == \A j \in i..(i + k - 1) : At(text, j) \in DigitChars

\* the offset just after the longest run of characters of class from offset i
RECURSIVE RunEnd(_, _, _)
RunEnd(text, i, class) == IF At(text, i) \in class THEN RunEnd(text, i + 1, class) ELSE i

\* the largest offset in lo..hi that is a word boundary: where a greedy
\* repetition followed by \b stops after backtracking
RECURSIVE LastBoundary(_, _, _)
LastBoundary(text, lo, hi) ==
  IF hi < lo THEN -1
  ELSE IF WordBoundary(text, hi) THEN hi
  ELSE LastBoundary(text, lo, hi - 1)

\* a pattern that does not match at an offset
NoMatch == -1

\* the first alternative that matches
FirstOf(a, b) == IF a # NoMatch THEN a ELSE b

\* the literal lit at offset i under re.IGNORECASE: the offset after it
Literal(text, i, lit) == IF IgnoreCase(PySlice(text, i, i + Len(lit))) = lit THEN i + Len(lit) ELSE NoMatch

\* [-\s]? and [-]? and [_-]? at offset j: the offset after it
Separators == {"-", " "}
SkipSep(text, j) == IF At(text, j) \in Separators THEN j + 1 ELSE j
SkipDash(text, j) == IF At(text, j) = "-" THEN j + 1 ELSE j
SkipUnderscoreDash(text, j) == IF At(text, j) \in {"_", "-"} THEN j + 1 ELSE j

\* [0-9]{k}\b at offset j
DigitTail(text, j, k) == IF DigitsAt(text, j, k) /\ WordBoundary(text, j + k) THEN j + k ELSE NoMatch

\* ---- email_pattern: \b[A-Za-z0-9._%+-]+@[A-Za-z0-9.-]+\.[A-Z|a-z]{2,}\b
LocalChars == AlnumChars \cup {".", "_", "%", "+", "-"}
DomainChars == AlnumChars \cup {".", "-"}
TldChars == Letters \cup {"|"}

\* \.[A-Z|a-z]{2,}\b with the dot at offset d
TldEnd(text, d) == IF At(text, d) = "." THEN LastBoundary(text, d + 3, RunEnd(text, d + 1, TldChars)) ELSE NoMatch

\* the domain backs off from its longest run: the last dot, at or before
\* offset d and after at least one domain character, that a suffix follows
RECURSIVE DomainEnd(_, _, _)
DomainEnd(text, a, d) ==
  IF d < a + 2 THEN NoMatch
  ELSE IF TldEnd(text, d) # NoMatch THEN TldEnd(text, d)
  ELSE DomainEnd(text, a, d - 1)

email_pattern(text, i) ==
  LET a == RunEnd(text, i, LocalChars)
  IN IF WordBoundary(text, i) /\ a > i /\ At(text, a) = "@"
     THEN DomainEnd(text, a, RunEnd(text, a + 1, DomainChars) - 1)
     ELSE NoMatch

\* ---- phone_pattern: the alternatives in their order; the second and the
\* fifth start with \b\+ and are tried like the others
Tail76(text, j) == FirstOf(DigitTail(text, SkipSep(text, j), 7), DigitTail(text, SkipSep(text, j), 6))

\* \b06[-\s]?[0-9]{8}\b
Phone06(text, i) == IF Literal(text, i, "06") # NoMatch THEN DigitTail(text, SkipSep(text, i + 2), 8) ELSE NoMatch

\* 6[-\s]?[0-9]{8}\b at offset j
Mobile6(text, j) == IF At(text, j) = "6" THEN DigitTail(text, SkipSep(text, j + 1), 8) ELSE NoMatch

\* [0-9]{2,3}[-\s]?[0-9]{6,7}\b at offset j
Area(text, j) == FirstOf(IF DigitsAt(text, j, 3) THEN Tail76(text, j + 3) ELSE NoMatch, IF DigitsAt(text, j, 2) THEN Tail76(text, j + 2) ELSE NoMatch)

\* \b\+31[-\s]?6[-\s]?[0-9]{8}\b
PhonePlus31Mobile(text, i) == IF Literal(text, i, "+31") # NoMatch THEN Mobile6(text, SkipSep(text, i + 3)) ELSE NoMatch

\* \b0031[-\s]?6[-\s]?[0-9]{8}\b
Phone0031(text, i) == IF Literal(text, i, "0031") # NoMatch THEN Mobile6(text, SkipSep(text, i + 4)) ELSE NoMatch

\* \b0[0-9]{2,3}[-\s]?[0-9]{6,7}\b
PhoneArea(text, i) == IF At(text, i) = "0" THEN Area(text, i + 1) ELSE NoMatch

\* \b\+31[-\s]?[0-9]{2,3}[-\s]?[0-9]{6,7}\b
PhonePlus31Area(text, i) == IF Literal(text, i, "+31") # NoMatch THEN Area(text, SkipSep(text, i + 3)) ELSE NoMatch

phone_pattern(text, i) ==
  IF ~WordBoundary(text, i) THEN NoMatch
  ELSE FirstOf(Phone06(text, i), FirstOf(PhonePlus31Mobile(text, i), FirstOf(Phone0031(text, i), FirstOf(PhoneArea(text, i), PhonePlus31Area(text, i)))))

\* ---- iban_pattern: \b[A-Z]{2}[0-9]{2}[A-Z0-9]{4,30}\b
iban_pattern(text, i) ==
  LET e == Min(RunEnd(text, i + 4, AlnumChars), i + 34)
  IN IF WordBoundary(text, i) /\ At(text, i) \in Letters /\ At(text, i + 1) \in Letters /\ DigitsAt(text, i + 2, 2)
     THEN LastBoundary(text, i + 8, e)
     ELSE NoMatch

\* ---- linkedin_pattern: the four alternatives in their order
SlugChars == AlnumChars \cup {".", "_", "-"}

\* [A-Za-z0-9._-]+/? at offset j
Slug(text, j) ==
  LET e == RunEnd(text, j, SlugChars)
  IN IF e = j THEN NoMatch ELSE IF At(text, e) = "/" THEN e + 1 ELSE e

\* linkedin\.com/in/ or linkedin\.com/company/ and the slug, at offset j
LinkedinPath(text, j, lit) == IF Literal(text, j, lit) # NoMatch THEN Slug(text, j + Len(lit)) ELSE NoMatch

\* https?://(?:www\.)? at offset i: the offset after it
SchemeEnd(text, i) ==
  LET s == FirstOf(Literal(text, i, "https://"), Literal(text, i, "http://"))
  IN IF s = NoMatch THEN NoMatch ELSE FirstOf(Literal(text, s, "www."), s)

linkedin_pattern(text, i) ==
  LET h == SchemeEnd(text, i)
  IN FirstOf(IF h = NoMatch THEN NoMatch ELSE FirstOf(LinkedinPath(text, h, "linkedin.com/in/"), LinkedinPath(text, h, "linkedin.com/company/")),
             FirstOf(LinkedinPath(text, i, "linkedin.com/in/"), LinkedinPath(text, i, "linkedin.com/company/")))

\* ---- bsn_pattern: \b[0-9]{9}\b
bsn_pattern(text, i) == IF WordBoundary(text, i) THEN DigitTail(text, i, 9) ELSE NoMatch

\* ---- rijbewijs_pattern: \b[A-Z]{2}[-]?[0-9]{3}[-]?[A-Z]{2}\b
rijbewijs_pattern(text, i) ==
  LET d == SkipDash(text, i + 2)
      l == SkipDash(text, d + 3)
  IN IF /\ WordBoundary(text, i) /\ At(text, i) \in Letters /\ At(text, i + 1) \in Letters
        /\ DigitsAt(text, d, 3) /\ At(text, l) \in Letters /\ At(text, l + 1) \in Letters
        /\ WordBoundary(text, l + 2)
     THEN l + 2 ELSE NoMatch

\* ---- creditcard_pattern: \b(?:[0-9]{4}[-\s]?){3}[0-9]{4}\b
RECURSIVE CardGroups(_, _, _)
CardGroups(text, j, n) ==
  IF n = 0 THEN DigitTail(text, j, 4)
  ELSE IF DigitsAt(text, j, 4) THEN CardGroups(text, SkipSep(text, j + 4), n - 1)
  ELSE NoMatch

creditcard_pattern(text, i) == IF WordBoundary(text, i) THEN CardGroups(text, i, 3) ELSE NoMatch

\* ---- ip_pattern: \b(?:[0-9]{1,3}\.){3}[0-9]{1,3}\b
RECURSIVE IpGroups(_, _, _)
IpGroups(text, j, n) ==
  LET e == RunEnd(text, j, DigitChars)
  IN IF e = j \/ e > j + 3 THEN NoMatch
     ELSE IF n = 0 THEN (IF WordBoundary(text, e) THEN e ELSE NoMatch)
     ELSE IF At(text, e) = "." THEN IpGroups(text, e + 1, n - 1)
     ELSE NoMatch

ip_pattern(text, i) == IF WordBoundary(text, i) THEN IpGroups(text, i, 3) ELSE NoMatch

\* ---- api_key_pattern: \b(?:sk-|pk-|api[_-]?key)[A-Za-z0-9_-]{20,}\b
KeyChars == WordChars \cup {"-"}

KeyPrefix(text, i) ==
  LET a == Literal(text, i, "api")
  IN FirstOf(Literal(text, i, "sk-"), FirstOf(Literal(text, i, "pk-"), IF a = NoMatch THEN NoMatch ELSE Literal(text, SkipUnderscoreDash(text, a), "key")))

api_key_pattern(text, i) ==
  LET p == KeyPrefix(text, i)
  IN IF WordBoundary(text, i) /\ p # NoMatch THEN LastBoundary(text, p + 20, RunEnd(text, p, KeyChars)) ELSE NoMatch

PiiTypes == <<"email", "phone", "iban", "linkedin", "bsn", "rijbewijs", "credit_card", "ip_address", "api_key">>

\* the compiled pattern of a category tried at offset i
PatternAt(type, text, i) ==
  CASE type = "email" -> email_pattern(text, i)
    [] type = "phone" -> phone_pattern(text, i)
    [] type = "iban" -> iban_pattern(text, i)
    [] type = "linkedin" -> linkedin_pattern(text, i)
    [] type = "bsn" -> bsn_pattern(text, i)
    [] type = "rijbewijs" -> rijbewijs_pattern(text, i)
    [] type = "credit_card" -> creditcard_pattern(text, i)
    [] type = "ip_address" -> ip_pattern(text, i)
    [] type = "api_key" -> api_key_pattern(text, i)

masked_replacement(type) ==
  CASE type = "email" -> "[EMAIL_MASKED]"
    [] type = "phone" -> "[PHONE_MASKED]"
    [] type = "iban" -> "[IBAN_MASKED]"
    [] type = "linkedin" -> "[LINKEDIN_MASKED]"
    [] type = "bsn" -> "[BSN_MASKED]"
    [] type = "rijbewijs" -> "[ID_MASKED]"
    [] type = "credit_card" -> "[CC_MASKED]"
    [] type = "ip_address" -> "[IP_MASKED]"
    [] type = "api_key" -> "[API_KEY_MASKED]"

\* _validate_bsn: the 11-proef over the first eight digits
RECURSIVE BsnTotal(_, _)
BsnTotal(bsn, i) == IF i > 7 THEN 0 ELSE int(At(bsn, i)) * (9 - i) + BsnTotal(bsn, i + 1)

\* the 11-proef that compares the ninth digit with the remainder itself
validate_bsn_plain(bsn) ==
  IF Len(bsn) # 9 \/ ~DigitsAt(bsn, 0, 9) THEN FALSE
  ELSE int(At(bsn, 8)) = BsnTotal(bsn, 0) % 11

validate_bsn(bsn) ==
  IF Len(bsn) # 9 \/ ~DigitsAt(bsn, 0, 9) THEN FALSE
  ELSE LET remainder == BsnTotal(bsn, 0) % 11
       IN IF remainder < 2 THEN int(At(bsn, 8)) = remainder
          ELSE int(At(bsn, 8)) = 11 - remainder

PIIMatch(type, text, start, end) == [type |-> type, match |-> PySlice(text, start, end), start |-> start, end |-> end, masked_replacement |-> masked_replacement(type)]

\* the filter find_all_pii applies to a match of a category
Accepted(type, match) ==
  CASE type = "iban" -> Len(match) >= 15
    [] type = "bsn" -> validate_bsn(match)
    [] OTHER -> TRUE

\* the least element of a non-empty set of offsets
Least(offsets) == CHOOSE p \in offsets : \A q \in offsets : p <= q

\* pattern.finditer(text) from offset pos on: the leftmost match, then the
\* search resumes where that match ended
RECURSIVE FindIter(_, _, _)
FindIter(type, text, pos) ==
  LET starts == {p \in pos..(Len(text) - 1) : PatternAt(type, text, p) # NoMatch}
  IN IF starts = {} THEN <<>>
     ELSE <<PIIMatch(type, text, Least(starts), PatternAt(type, text, Least(starts)))>> \o FindIter(type, text, PatternAt(type, text, Least(starts)))

\* the matches list before the sort, categories in the order of the source
RECURSIVE Unsorted(_, _)
Unsorted(text, k) ==
  IF k > Len(PiiTypes) THEN <<>>
  ELSE SelectSeq(FindIter(PiiTypes[k], text, 0), LAMBDA m : Accepted(m.type, m.match)) \o Unsorted(text, k + 1)

\* matches.sort(key=lambda x: x.start): stable, so the matches of one start
\* keep their order
RECURSIVE SortByStart(_, _)
SortByStart(matches, from) ==
  LET starts == {p \in {matches[k].start : k \in 1..Len(matches)} : p >= from}
  IN IF starts = {} THEN <<>>
     ELSE SelectSeq(matches, LAMBDA m : m.start = Least(starts)) \o SortByStart(matches, Least(starts) + 1)

FindAllPii(text) == SortByStart(Unsorted(text, 1), 0)

\* mask_pii's loop over reversed(matches): the working text once the matches
\* k..Len(matches) have been substituted
RECURSIVE MaskedAfter(_, _, _)
MaskedAfter(text, matches, k) ==
  IF k > Len(matches) THEN text
  ELSE LET masked_text == MaskedAfter(text, matches, k + 1)
       IN PySlice(masked_text, 0, matches[k].start) \o matches[k].masked_replacement \o PySlice(masked_text, matches[k].end, Len(masked_text))

mask_pii_with(text, matches) == IF matches = <<>> THEN text ELSE MaskedAfter(text, matches, 1)

mask_pii(text) == mask_pii_with(text, FindAllPii(text))

\* ------------------------------------------------ PII library state machine
\* A client of the library: matches = find_all_pii(text), then
\* masked = mask_pii(text, matches), then the masked text is searched and
\* masked once more.
MaxDigit == 2
MaxChunks == 3

DigitString(ds) == Digits[ds[1] + 1] \o Digits[ds[2] + 1] \o Digits[ds[3] + 1] \o Digits[ds[4] + 1] \o Digits[ds[5] + 1] \o Digits[ds[6] + 1] \o Digits[ds[7] + 1] \o Digits[ds[8] + 1] \o Digits[ds[9] + 1]

BsnMiddles == {<<0, 0, 0, 0, 0>>, <<9, 8, 7, 6, 5>>}

\* the 9-digit strings whose first three digits are at most m, the next five
\* one of BsnMiddles, the ninth any digit
NineDigits(m) == {DigitString(ds \o mid \o <<d9>>) : ds \in [1..3 -> 0..m], mid \in BsnMiddles, d9 \in 0..9}

\* a 9-digit string on its own, and between other words
BsnTexts(m) == NineDigits(m) \cup {"nr " \o token \o " ok" : token \in NineDigits(m)}

MaskChunks == {"jan@ex.com", "0612345678", "000000019", "111222333", " ", "linkedin.com/in/jan", "bel"}

RECURSIVE Joined(_)
Joined(chunks) == IF chunks = <<>> THEN "" ELSE Head(chunks) \o Joined(Tail(chunks))

MaskTexts(n) == {Joined(chunks) : chunks \in UNION {[1..k -> MaskChunks] : k \in 0..n}}

InitBsn ==
  /\ CoreIdle /\ AggIdle /\ RegressIdle /\ PreviewIdle /\ LateIdle
  /\ piiText \in BsnTexts(MaxDigit)
  /\ piiPc = "call"
  /\ piiMatches = <<>>
  /\ piiMasked = ""
  /\ piiAgain = <<>>

InitMask ==
  /\ CoreIdle /\ AggIdle /\ RegressIdle /\ PreviewIdle /\ LateIdle
  /\ piiText \in MaskTexts(MaxChunks)
  /\ piiPc = "call"
  /\ piiMatches = <<>>
  /\ piiMasked = ""
  /\ piiAgain = <<>>

\* matches = find_all_pii(text)
FindAllPiiCall ==
  /\ piiPc = "call"
  /\ piiPc' = "found"
  /\ piiMatches' = FindAllPii(piiText)
  /\ UNCHANGED <<piiText, piiMasked, piiAgain, coreVars, aggVars, regressVars, previewVars, lateVars>>

\* masked = mask_pii(text, matches)
MaskPiiCall ==
  /\ piiPc = "found"
  /\ piiPc' = "masked"
  /\ piiMasked' = mask_pii_with(piiText, piiMatches)
  /\ UNCHANGED <<piiText, piiMatches, piiAgain, coreVars, aggVars, regressVars, previewVars, lateVars>>

\* find_all_pii(masked) and mask_pii(masked)
MaskAgain ==
  /\ piiPc = "masked"
  /\ piiPc' = "done"
  /\ piiAgain' = <<[matches |-> FindAllPii(piiMasked), masked |-> mask_pii(piiMasked)]>>
  /\ UNCHANGED <<piiText, piiMatches, piiMasked, coreVars, aggVars, regressVars, previewVars, lateVars>>

NextPii == FindAllPiiCall \/ MaskPiiCall \/ MaskAgain

SpecBsn == InitBsn /\ [][NextPii]_vars

SpecMask == InitMask /\ [][NextPii]_vars

\* ------------------------------------------------ PII library properties
PiiFound == piiPc # "call"
PiiMasked == piiPc \in {"masked", "done"}
PiiDone == piiPc = "done"

\* a 9-digit string stands as a separate token at offset o
NineDigitToken(text, o) == DigitsAt(text, o, 9) /\ At(text, o - 1) \notin WordChars /\ At(text, o + 9) \notin WordChars

DigitAt(text, o, k) == int(At(text, o + k - 1))

\* the checksum as the specification states it, on the digits d1..d9
WeightedSum(text, o) == 9 * DigitAt(text, o, 1) + 8 * DigitAt(text, o, 2) + 7 * DigitAt(text, o, 3) + 6 * DigitAt(text, o, 4) + 5 * DigitAt(text, o, 5) + 4 * DigitAt(text, o, 6) + 3 * DigitAt(text, o, 7) + 2 * DigitAt(text, o, 8)

ChecksumHolds(text, o) ==
  LET r == WeightedSum(text, o) % 11
  IN IF r < 2 THEN DigitAt(text, o, 9) = r ELSE DigitAt(text, o, 9) = 11 - r

ReportedAs(type, o, len) == \E k \in 1..Len(piiMatches) : piiMatches[k].type = type /\ piiMatches[k].start = o /\ piiMatches[k].end = o + len

\* C15: every 9-digit string standing as a separate token is reported with
\* type "bsn" if and only if its checksum holds; a 9-digit string failing
\* the checksum is never reported as a bsn or an ID.
C15_BsnIffChecksum ==
  PiiFound =>
    \A o \in 0..Len(piiText) :
      NineDigitToken(piiText, o) =>
        /\ ReportedAs("bsn", o, 9) <=> ChecksumHolds(piiText, o)
        /\ ~ChecksumHolds(piiText, o) => ~ReportedAs("rijbewijs", o, 9)

\* a token with remainder at least 2 that passes is reported, between words
C15_Witness ==
  /\ PiiFound
  /\ \E o \in 1..Len(piiText) :
       /\ NineDigitToken(piiText, o)
       /\ WeightedSum(piiText, o) % 11 >= 2
       /\ ChecksumHolds(piiText, o)
       /\ ReportedAs("bsn", o, 9)

\* the text with every character of a matched span removed and one
\* replacement token per match, in the order of the matches
RECURSIVE SpansMasked(_, _, _, _)
SpansMasked(text, matches, k, pos) ==
  IF k > Len(matches) THEN PySlice(text, pos, Len(text))
  ELSE PySlice(text, pos, Max(pos, matches[k].start)) \o matches[k].masked_replacement \o SpansMasked(text, matches, k + 1, Max(pos, matches[k].end))

\* C16: when a match is substituted the working text at [start, end) still
\* holds the match's characters, and the output has one replacement token
\* per match and no character of a matched span, overlapping matches of
\* different categories included.
C16_OffsetsStayValid ==
  PiiMasked =>
    /\ \A k \in 1..Len(piiMatches) : PySlice(MaskedAfter(piiText, piiMatches, k + 1), piiMatches[k].start, piiMatches[k].end) = piiMatches[k].match
    /\ piiMasked = SpansMasked(piiText, piiMatches, 1, 0)

\* C17: masking is idempotent: the masked text has no match and masking it
\* again returns it; a text with no match is returned unchanged.
C17_MaskIdempotent ==
  PiiDone =>
    /\ piiAgain[1].matches = <<>>
    /\ piiAgain[1].masked = piiMasked
    /\ piiMatches = <<>> => piiMasked = piiText

\* ======================================================================
\* Trace input of a judge evaluation (eval/src/tracing.py): the previews the
\* wrapper builds and what create_trace hands to the tracing collaborator.
\* A value of the input data is a record: a string, a dict, a list, or
\* anything else.
\* ======================================================================
Str(s) == [kind |-> "str", val |-> s]
Dict(d) == [kind |-> "dict", val |-> d]
List(l) == [kind |-> "list", val |-> l]

PreviewLen == 100

\* text[:100] + "..." if len(text) > 100 else text
Preview(text) == IF Len(text) > PreviewLen THEN PySlice(text, 0, PreviewLen) \o "..." ELSE text

RECURSIVE mask_pii_in_metadata(_)
mask_pii_in_metadata(data) ==
  IF data.kind # "dict" THEN data
  ELSE Dict([key \in DOMAIN data.val |->
         LET value == data.val[key]
         IN CASE value.kind = "str" -> Str(mask_pii_with(value.val, FindAllPii(value.val)))
              [] value.kind = "dict" -> mask_pii_in_metadata(value)
              [] value.kind = "list" -> List([k \in 1..Len(value.val) |-> IF value.val[k].kind = "dict" THEN mask_pii_in_metadata(value.val[k]) ELSE value.val[k]])
              [] OTHER -> value])

\* create_trace: what start_span and update_trace are called with; nothing
\* when the collaborator is absent
create_trace(tracer, name, input_data, tags) ==
  IF tracer = "absent" THEN <<>>
  ELSE <<[name |-> name, input |-> mask_pii_in_metadata(input_data), tags |-> tags]>>

\* the create_trace call of the trace_judge_evaluation wrapper
JudgeTraceInput(case_id, input_text, output_text) == Dict([case_id |-> Str(case_id), input_preview |-> Str(Preview(input_text)), output_preview |-> Str(Preview(output_text))])

JudgeTrace(tracer, case_id, input_text, output_text) == create_trace(tracer, "judge_evaluation_case_" \o case_id, JudgeTraceInput(case_id, input_text, output_text), <<"judge_evaluation", "poc2", "case_" \o case_id>>)

\* ------------------------------------------------ trace input state machine
MaxFill == 10

Filler == "abcdefghi "

RECURSIVE Fill(_)
Fill(k) == IF k = 0 THEN "" ELSE Filler \o Fill(k - 1)

PreviewChunks == {"jan@ex.com", "0612345678", "bel"}

\* a chunk after k fillers and the last s characters of one more
PreviewTexts(n) == {Fill(k) \o PySlice(Filler, 10 - s, 10) \o chunk \o tail : k \in 0..n, s \in 0..9, chunk \in PreviewChunks, tail \in {"", " ok"}}

InitPreview ==
  /\ CoreIdle /\ AggIdle /\ RegressIdle /\ PiiIdle /\ LateIdle
  /\ tInput \in PreviewTexts(MaxFill)
  /\ tOutput \in {"bel jan@ex.com", Fill(10) \o "jan@ex.com"}
  /\ tTracer \in TracerModes
  /\ tPc = "call"
  /\ tHanded = <<>>

\* the wrapper of trace_judge_evaluation up to its create_trace call
WrapperCreateTrace ==
  /\ tPc = "call"
  /\ tPc' = "traced"
  /\ tHanded' = JudgeTrace(tTracer, "001", tInput, tOutput)
  /\ UNCHANGED <<tInput, tOutput, tTracer, coreVars, aggVars, regressVars, piiVars, lateVars>>

NextPreview == WrapperCreateTrace

SpecPreview == InitPreview /\ [][NextPreview]_vars

\* ------------------------------------------------ trace input properties
Traced == tPc = "traced" /\ tHanded # <<>>

\* the matches of the full text that lie wholly or partly in the preview,
\* cut to it
RECURSIVE InPreview(_, _)
InPreview(matches, k) ==
  IF k > Len(matches) THEN <<>>
  ELSE IF matches[k].start >= PreviewLen THEN InPreview(matches, k + 1)
  ELSE <<[matches[k] EXCEPT !.end = Min(matches[k].end, PreviewLen)]>> \o InPreview(matches, k + 1)

PreviewMasked(text) == SpansMasked(Preview(text), InPreview(FindAllPii(text), 1), 1, 0)

\* C20: every PII match of the full input and output text that lies wholly
\* or partly inside the preview is replaced by its mask token in what
\* create_trace hands over, and every string of the input data went through
\* mask_pii.
C20_NoPiiToTracer ==
  Traced =>
    /\ tHanded[1].input.val.input_preview = Str(PreviewMasked(tInput))
    /\ tHanded[1].input.val.output_preview = Str(PreviewMasked(tOutput))
    /\ tHanded[1].input.val.case_id = Str(mask_pii("001"))

\* ------------------------------------------------ word limit and call-to-action
WordCount == Len(gCall.text)

\* C18: for every configured maximum, 0 included, length_ok is reported true
\* if and only if the word count is at most the maximum, length_over_by is
\* max(0, word count - maximum), and the severity is "fail" when the word
\* count exceeds the maximum; without a maximum the limit is not checked.
C18_WordLimit ==
  GuardDone =>
    IF gCall.max_words = NoMaxWords
    THEN GuardOut.checks.length_ok /\ GuardOut.checks.length_over_by = 0
    ELSE /\ GuardOut.checks.length_ok <=> WordCount <= gCall.max_words
         /\ GuardOut.checks.length_over_by = Max(0, WordCount - gCall.max_words)
         /\ WordCount > gCall.max_words => GuardOut.severity = "fail"

\* C19: with cta_required, cta_present is reported true if and only if a
\* call-to-action pattern matches, and the severity is "fail" when none
\* does; without cta_required cta_present is reported true and a text
\* without a call-to-action that passes every other check gets "pass".
C19_CallToAction ==
  GuardDone =>
    IF gCall.cta_required
    THEN /\ GuardOut.checks.cta_present <=> HasCta
         /\ ~HasCta => GuardOut.severity = "fail"
    ELSE /\ GuardOut.checks.cta_present
         /\ (~HasCta /\ ~HasPii /\ ~HasNoGo /\ WithinLimit /\ JsonAccepted) => GuardOut.severity = "pass"

\* --------------------------------------------- the tracing collaborator
\* C21: the evaluation outcome does not depend on the tracing collaborator:
\* with the tracer absent, working, or raising on span creation, update or
\* end, the caller of evaluate_single gets the JudgeResult the function
\* body computes for the case and the judge outcome; a tracing error never
\* replaces it by an exception.
C21_OutcomeIndependentOfTracer ==
  JudgeDone => JudgeOut = evaluate_single(jCase, jOutcome)

\* ------------------------------------------- guardrail-then-judge pipeline
\* run_live_poc_test.py: run_poc1_on_generated_content makes the guardrail
\* records, run_poc2_judge_evaluation gates the cases and calls evaluate_batch
oldVars == <<coreVars, aggVars, regressVars, piiVars, previewVars>>
OldIdle == CoreIdle /\ AggIdle /\ RegressIdle /\ PiiIdle /\ PreviewIdle
notPipe == <<oldVars, csvVars, runVars, spanVars, sharedVars>>
NotPipeIdle == OldIdle /\ CsvIdle /\ RunIdle /\ SpanIdle /\ SharedIdle
notCsv == <<oldVars, pipeVars, runVars, spanVars, sharedVars>>
NotCsvIdle == OldIdle /\ PipeIdle /\ RunIdle /\ SpanIdle /\ SharedIdle
notRun == <<oldVars, pipeVars, csvVars, spanVars, sharedVars>>
NotRunIdle == OldIdle /\ PipeIdle /\ CsvIdle /\ SpanIdle /\ SharedIdle
notSpan == <<oldVars, pipeVars, csvVars, runVars, sharedVars>>
NotSpanIdle == OldIdle /\ PipeIdle /\ CsvIdle /\ RunIdle /\ SharedIdle
notShared == <<oldVars, pipeVars, csvVars, runVars, spanVars>>
NotSharedIdle == OldIdle /\ PipeIdle /\ CsvIdle /\ RunIdle /\ SpanIdle

MaxPipeCases == 2      \* largest number of generated cases
PipeMaxWords == 120    \* max_words=120 of the run_all_checks call

\* generate_test_content stores f"ERROR: {str(e)}" when the generation failed
ErrorOutput == <<"ERROR:">>

\* case['generated_output'].startswith('ERROR:')
StartsWithError(output) == Len(output) > 0 /\ output[1] = "ERROR:"

PipeVocab == {"hallo", "bellen", "garantie", "jan@example.com"}
PipeOutputs ==
  {ErrorOutput} \cup {<<w>> : w \in PipeVocab} \cup {<<w, "bellen">> : w \in PipeVocab}

\* generated_content with n cases; the case ids are those of the input rows
PipeContents(n) ==
  UNION {{[i \in 1..m |-> [case_id |-> i, generated_output |-> f[i]]] :
            f \in [1..m -> PipeOutputs]} : m \in 0..n}

\* what the delegate does for a judged case
PipeOutcomes == {AllScored(4), [kind |-> "timeout", response |-> NoEntries]}

\* the record run_all_checks(text, case_id, phase, max_words=120,
\* cta_required=True, output_mode="text") returns
Poc1Record(case) ==
  LET result == run_all_checks(case.generated_output, PipeMaxWords, None, TRUE)
  IN [case_id |-> case.case_id, output_mode |-> "text",
      checks |-> result.checks, severity |-> result.severity]

\* poc1_lookup = {r['case_id']: r for r in poc1_results}; poc1_lookup.get(case_id, {})
NoRecord == [case_id |-> 0, output_mode |-> None, checks |-> NoChecks,
             severity |-> None]
Poc1Lookup(poc1_results, case_id) ==
  LET at == {k \in 1..Len(poc1_results) : poc1_results[k].case_id = case_id}
  IN IF at = {} THEN NoRecord
     ELSE poc1_results[CHOOSE k \in at : \A j \in at : j <= k]

\* the hard-fail test of run_poc2_judge_evaluation
HardFail(poc1_result) ==
  LET has_pii == Len(poc1_result.checks.pii_hits) > 0
      json_invalid == ~poc1_result.checks.json_valid
  IN has_pii \/ (json_invalid /\ poc1_result.output_mode = "json")

InitPipeline ==
  /\ NotPipeIdle
  /\ pContent \in PipeContents(MaxPipeCases)
  /\ pPc = "poc1"
  /\ pIdx = 1
  /\ pPoc1 = <<>>
  /\ pJudgeCases = <<>>
  /\ pSkipped = <<>>
  /\ pSubmitted = <<>>
  /\ pResults = <<>>

\* run_poc1_on_generated_content, one iteration: a failed generation is
\* passed over, every other case gets its guardrail record
Poc1Check ==
  /\ pPc = "poc1"
  /\ pIdx <= Len(pContent)
  /\ pPoc1' = IF StartsWithError(pContent[pIdx].generated_output) THEN pPoc1
              ELSE Append(pPoc1, Poc1Record(pContent[pIdx]))
  /\ pIdx' = pIdx + 1
  /\ UNCHANGED <<pContent, pPc, pJudgeCases, pSkipped, pSubmitted, pResults, notPipe>>

\* run_poc1_on_generated_content returns and main calls
\* run_poc2_judge_evaluation with the records
Poc1Return ==
  /\ pPc = "poc1"
  /\ pIdx > Len(pContent)
  /\ pPc' = "gate"
  /\ pIdx' = 1
  /\ UNCHANGED <<pContent, pPoc1, pJudgeCases, pSkipped, pSubmitted, pResults, notPipe>>

\* run_poc2_judge_evaluation, one iteration of the gating loop
Poc2Gate ==
  /\ pPc = "gate"
  /\ pIdx <= Len(pContent)
  /\ LET case == pContent[pIdx]
         failed == StartsWithError(case.generated_output)
         hard == HardFail(Poc1Lookup(pPoc1, case.case_id))
     IN /\ pSkipped' = IF ~failed /\ hard THEN Append(pSkipped, case.case_id)
                       ELSE pSkipped
        /\ pJudgeCases' = IF ~failed /\ ~hard
                          THEN Append(pJudgeCases, [id |-> case.case_id,
                                                    output |-> case.generated_output])
                          ELSE pJudgeCases
  /\ pIdx' = pIdx + 1
  /\ UNCHANGED <<pContent, pPc, pPoc1, pSubmitted, pResults, notPipe>>

\* run_poc2_judge_evaluation after the loop: judge.evaluate_batch is called
\* with judge_cases and its results are returned; an exception out of
\* evaluate_batch is caught and [] is returned
Poc2Judge ==
  \E raises \in BOOLEAN, outcomes \in [1..Len(pJudgeCases) -> PipeOutcomes] :
    /\ pPc = "gate"
    /\ pIdx > Len(pContent)
    /\ pSubmitted' = <<pJudgeCases>>
    /\ pResults' = IF raises THEN <<>>
                   ELSE [i \in 1..Len(pJudgeCases) |->
                           evaluate_single(pJudgeCases[i].id, outcomes[i])]
    /\ pPc' = "done"
    /\ UNCHANGED <<pContent, pIdx, pPoc1, pJudgeCases, pSkipped, notPipe>>

NextPipeline == Poc1Check \/ Poc1Return \/ Poc2Gate \/ Poc2Judge

SpecPipeline == InitPipeline /\ [][NextPipeline]_vars

\* C22: a case is handed to evaluate_batch only after its guardrail record
\* exists and only if it passed the gate: every submitted case has a
\* guardrail record, and no submitted case has guardrail severity "fail".
C22_OnlyGatedCasesJudged ==
  pSubmitted # <<>> =>
    \A i \in 1..Len(pSubmitted[1]) :
      /\ \E k \in 1..Len(pPoc1) : pPoc1[k].case_id = pSubmitted[1][i].id
      /\ \A k \in 1..Len(pPoc1) :
           pPoc1[k].case_id = pSubmitted[1][i].id => pPoc1[k].severity # "fail"

\* ------------------------------------------------------- results_to_csv
CsvLimit == 500        \* result.raw_response[:500]
MaxCsvRows == 2        \* longest result list exported

\* a cell of a row: a number, or text
Num(n) == [kind |-> "num", val |-> n]

\* the cells results_to_csv adds to the four of CsvRow: for a parse failure
\* the cut raw response and an empty score and reason per rubric criterion,
\* otherwise the score and reason of every criterion that was parsed
CsvColumns(result) ==
  IF result.failed_judge_parse
  THEN [raw_response |-> <<PySlice(result.raw_response, 0, CsvLimit)>>,
        score |-> [k \in CritIdx |-> <<Str("")>>],
        reason |-> [k \in CritIdx |-> <<Str("")>>]]
  ELSE LET at(k) == {i \in 1..Len(result.criterion_scores) :
                       result.criterion_scores[i].criterion = Criteria[k]}
           last(k) == CHOOSE i \in at(k) : \A j \in at(k) : j <= i
       IN [raw_response |-> <<>>,
           score |-> [k \in CritIdx |-> IF at(k) = {} THEN <<>>
                        ELSE <<Num(result.criterion_scores[last(k)].score)>>],
           reason |-> [k \in CritIdx |-> IF at(k) = {} THEN <<>>
                        ELSE <<Str(result.criterion_scores[last(k)].reason)>>]]

\* the raw responses a failed result may hold: the text of an exception, the
\* delegate's unparseable answer, the printed response
RawTexts == {"", "Request timed out", Fill(49), Fill(50), Fill(50) \o "x", Fill(60)}

\* the results evaluate_single returns, the raw response label replaced by
\* a text
CsvOutcomes ==
  BatchOutcomes \cup {[kind |-> "object", response |-> [k \in CritIdx |->
                         IF k = 2 THEN Obj(5, GoodReason) ELSE Absent]]}
CsvResults ==
  {LET result == evaluate_single(id, o)
   IN IF result.failed_judge_parse THEN [result EXCEPT !.raw_response = text]
      ELSE result : id \in {"001"}, o \in CsvOutcomes, text \in RawTexts}

InitCsv ==
  /\ NotCsvIdle
  /\ cResults \in RowLists(CsvResults, MaxCsvRows)
  /\ cPc = "call"
  /\ cRows = <<>>

\* one call of results_to_csv on the list evaluate_batch returned
ResultsToCsv ==
  /\ cPc = "call"
  /\ cPc' = "done"
  /\ cRows' = [i \in 1..Len(cResults) |->
                 [row |-> CsvRow(cResults[i]), columns |-> CsvColumns(cResults[i])]]
  /\ UNCHANGED <<cResults, notCsv>>

NextCsv == ResultsToCsv

SpecCsv == InitCsv /\ [][NextCsv]_vars

CsvDone == cPc = "done"

\* C23: every exported row has as final_score the weighted score exactly
\* when the result's score is not null and the marker "PARSE_FAILED", which
\* is neither 0 nor any number, exactly when it is null; a row of a parse
\* failure holds at most 500 characters of raw response and an empty score
\* and reason for every rubric criterion.
C23_ParseFailedMarker ==
  CsvDone =>
    /\ Len(cRows) = Len(cResults)
    /\ \A i \in 1..Len(cResults) :
         LET result == cResults[i]
             row == cRows[i].row
             columns == cRows[i].columns
         IN /\ result.weighted_final_score # Null
                 <=> (row.final_score = result.weighted_final_score
                      /\ row.final_score # FinalText)
            /\ result.weighted_final_score = Null <=> row.final_score = FinalText
            /\ FinalText # Zero
            /\ row.failed_judge_parse = PyTrue
                 => /\ Len(columns.raw_response[1]) <= CsvLimit
                    /\ columns.raw_response[1]
                         = SubSeq(result.raw_response, 1, Len(columns.raw_response[1]))
                    /\ \A k \in CritIdx : /\ columns.score[k] = <<Str("")>>
                                          /\ columns.reason[k] = <<Str("")>>

\* a parse failure with a raw response longer than the limit was exported
\* next to a scored result
C23_Witness ==
  /\ CsvDone
  /\ \E i \in 1..Len(cResults) :
       /\ cResults[i].failed_judge_parse
       /\ Len(cResults[i].raw_response) > CsvLimit
       /\ Len(cRows[i].columns.raw_response[1]) = CsvLimit
  /\ \E i \in 1..Len(cResults) :
       /\ ~cResults[i].failed_judge_parse
       /\ cRows[i].row.final_score = cResults[i].weighted_final_score

\* ---------------------------------------------------- run_poc3_regress
MaxFileRows == 2       \* most rows in a scores file

\* Path(file_path).exists()
Exists(file) == file.state # "missing"

\* pd.read_csv succeeds
Readable(file) == file.state = "present"

\* the rows of a readable scores file: len(df), df.to_dict('records')
Rows(file) == file.rows

\* the alignment test accepting a shorter baseline
Aligned_shorter(scores_a, scores_b) == Len(scores_a) <= Len(scores_b)

\* len(scores_a_df) != len(scores_b_df) aborts the run
Aligned(scores_a, scores_b) == Len(scores_a) = Len(scores_b)

FileRows == {Scored(10, PyFalse), Scored(35, PyFalse), Scored(300, PyFalse)}
NoFile(state) == [state |-> state, rows |-> <<>>]
ScoreFiles(n) == {NoFile("missing"), NoFile("unreadable")} \cup {[state |-> "present", rows |-> rows] : rows \in RowLists(FileRows, n)}

InitRun ==
  /\ NotRunIdle
  /\ xFrozen \in {NoFile("missing"), NoFile("unreadable"), NoFile("present")}
  /\ xScoresA \in ScoreFiles(MaxFileRows)
  /\ xScoresB \in ScoreFiles(MaxFileRows)
  /\ xTracer \in {"absent", "working", "update"}
  /\ xPc = "validate"
  /\ xCompared = FALSE
  /\ xSummary = <<>>
  /\ xWritten = <<>>
  /\ xReturn = <<>>

\* the loop over required_files: a file that does not exist ends the run
RunValidate ==
  /\ xPc = "validate"
  /\ IF Exists(xFrozen) /\ Exists(xScoresA) /\ Exists(xScoresB)
     THEN xPc' = "load" /\ xReturn' = xReturn
     ELSE xPc' = "done" /\ xReturn' = <<FALSE>>
  /\ UNCHANGED <<xFrozen, xScoresA, xScoresB, xTracer, xCompared, xSummary, xWritten, notRun>>

\* the three pd.read_csv calls in their try block
RunLoad ==
  /\ xPc = "load"
  /\ IF Readable(xFrozen) /\ Readable(xScoresA) /\ Readable(xScoresB)
     THEN xPc' = "align" /\ xReturn' = xReturn
     ELSE xPc' = "done" /\ xReturn' = <<FALSE>>
  /\ UNCHANGED <<xFrozen, xScoresA, xScoresB, xTracer, xCompared, xSummary, xWritten, notRun>>

\* the comparison of the two lengths
RunAlign ==
  /\ xPc = "align"
  /\ IF Aligned(Rows(xScoresA), Rows(xScoresB))
     THEN xPc' = "compare" /\ xReturn' = xReturn
     ELSE xPc' = "done" /\ xReturn' = <<FALSE>>
  /\ UNCHANGED <<xFrozen, xScoresA, xScoresB, xTracer, xCompared, xSummary, xWritten, notRun>>

\* RegressionTracer is constructed and trace_regression_run awaited; an
\* exception ends the run
RunCompare ==
  /\ xPc = "compare"
  /\ xCompared' = TRUE
  /\ LET summary == trace_regression_run(xTracer, Rows(xScoresA), Rows(xScoresB))
     IN IF summary.raised = None
        THEN xPc' = "save" /\ xSummary' = <<summary>> /\ xReturn' = xReturn
        ELSE xPc' = "done" /\ xSummary' = xSummary /\ xReturn' = <<FALSE>>
  /\ UNCHANGED <<xFrozen, xScoresA, xScoresB, xTracer, xWritten, notRun>>

\* the summary is written to output_path and the verdict returned
RunSave ==
  /\ xPc = "save"
  /\ xWritten' = xSummary
  /\ xReturn' = <<xSummary[1].meets_promotion_threshold>>
  /\ xPc' = "done"
  /\ UNCHANGED <<xFrozen, xScoresA, xScoresB, xTracer, xCompared, xSummary, notRun>>

NextRun == RunValidate \/ RunLoad \/ RunAlign \/ RunCompare \/ RunSave

SpecRun == InitRun /\ [][NextRun]_vars

DatasetMissing == ~Exists(xFrozen)
RowCountsDiffer ==
  Readable(xScoresA) /\ Readable(xScoresB) /\ Len(Rows(xScoresA)) # Len(Rows(xScoresB))

\* C24: when the frozen dataset is missing, or the two score files hold
\* different numbers of rows, the run never reaches the comparison: at no
\* moment has trace_regression_run been called, a summary been produced or
\* written, or the promotion verdict been returned as met.
C24_MeaninglessRunAborts ==
  (DatasetMissing \/ RowCountsDiffer) =>
    /\ ~xCompared
    /\ xSummary = <<>>
    /\ xWritten = <<>>
    /\ xReturn # <<TRUE>>
    /\ xPc \notin {"compare", "save"}

\* a run with a baseline shorter than the candidate, whose comparison would
\* have met the threshold, was ended with the failing verdict
C24_Witness ==
  /\ xPc = "done"
  /\ Readable(xFrozen)
  /\ RowCountsDiffer
  /\ Len(Rows(xScoresA)) < Len(Rows(xScoresB))
  /\ trace_regression_run("absent", Rows(xScoresA), Rows(xScoresB)).meets_promotion_threshold
  /\ xReturn = <<FALSE>>

\* ------------------------------------------------ the life of a span
\* trace_judge_evaluation, trace_batch_evaluation and trace_regression_run
\* make the same calls of the collaborator around the stage they wrap:
\* create_trace (start_span, update_trace) before the try; in the try the
\* stage, then update, update_trace, end, flush; in the except branch
\* update_trace, end, flush, and the exception is raised again.
SpanStages == {"judge", "batch", "regress"}
SpanFaults == {"absent", "none", "start_span", "update_trace", "update", "end", "flush"}

\* evaluate_single catches every Exception of its body and the body of
\* trace_regression_run is arithmetic on the aggregates; _execute of
\* evaluate_batch raises when a case has no "id" or a nested wrapper raises
BodyMay(stage) == IF stage = "batch" THEN {"returns", "raises"} ELSE {"returns"}

InitSpan ==
  /\ NotSpanIdle
  /\ wStage \in SpanStages
  /\ wFault \in SpanFaults
  /\ wBody \in BodyMay(wStage)
  /\ wPc = "start_span"
  /\ wSpan = "none"
  /\ wEnds = 0
  /\ wOutcome = ""

\* the wrapper is left by the exception of a collaborator call made outside
\* the try, or inside the except branch
Leave == wPc' = "done" /\ wOutcome' = "raised"

\* create_trace: without a collaborator (None, "no-trace") is returned,
\* otherwise langfuse.start_span is called
CreateTraceStartSpan ==
  /\ wPc = "start_span"
  /\ IF wFault = "absent" THEN wPc' = "stage" /\ UNCHANGED <<wSpan, wOutcome>>
     ELSE IF wFault = "start_span" THEN Leave /\ UNCHANGED wSpan
     ELSE wPc' = "trace" /\ wSpan' = "open" /\ UNCHANGED wOutcome
  /\ UNCHANGED <<wStage, wFault, wBody, wEnds, notSpan>>

\* create_trace: span.update_trace on the span just started
CreateTraceUpdateTrace ==
  /\ wPc = "trace"
  /\ IF wFault = "update_trace" THEN Leave ELSE wPc' = "stage" /\ UNCHANGED wOutcome
  /\ UNCHANGED <<wStage, wFault, wBody, wSpan, wEnds, notSpan>>

\* the wrapped stage runs inside the try; "if span:" skips the span calls
WrappedStage ==
  /\ wPc = "stage"
  /\ IF wBody = "raises" THEN wPc' = "except" /\ UNCHANGED wOutcome
     ELSE IF wSpan = "none" THEN wPc' = "done" /\ wOutcome' = "returned"
     ELSE wPc' = "update" /\ UNCHANGED wOutcome
  /\ UNCHANGED <<wStage, wFault, wBody, wSpan, wEnds, notSpan>>

\* span.update(output=..., metadata=...)
TryUpdate ==
  /\ wPc = "update"
  /\ wPc' = IF wFault = "update" THEN "except" ELSE "update_trace"
  /\ UNCHANGED <<wStage, wFault, wBody, wSpan, wEnds, wOutcome, notSpan>>

\* span.update_trace(output=...)
TryUpdateTrace ==
  /\ wPc = "update_trace"
  /\ wPc' = IF wFault = "update_trace" THEN "except" ELSE "end"
  /\ UNCHANGED <<wStage, wFault, wBody, wSpan, wEnds, wOutcome, notSpan>>

\* span.end()
TryEnd ==
  /\ wPc = "end"
  /\ IF wFault = "end" THEN wPc' = "except" /\ UNCHANGED <<wSpan, wEnds>>
     ELSE wPc' = "flush" /\ wSpan' = "ended" /\ wEnds' = wEnds + 1
  /\ UNCHANGED <<wStage, wFault, wBody, wOutcome, notSpan>>

\* tracing_manager.langfuse.flush(), then return
TryFlush ==
  /\ wPc = "flush"
  /\ IF wFault = "flush" THEN wPc' = "except" /\ UNCHANGED wOutcome
     ELSE wPc' = "done" /\ wOutcome' = "returned"
  /\ UNCHANGED <<wStage, wFault, wBody, wSpan, wEnds, notSpan>>

\* except Exception: "if span:" span.update_trace(output={"error": ...})
ExceptUpdateTrace ==
  /\ wPc = "except"
  /\ IF wSpan = "none" \/ wFault = "update_trace" THEN Leave
     ELSE wPc' = "except_end" /\ UNCHANGED wOutcome
  /\ UNCHANGED <<wStage, wFault, wBody, wSpan, wEnds, notSpan>>

\* except Exception: span.end()
ExceptEnd ==
  /\ wPc = "except_end"
  /\ IF wFault = "end" THEN Leave /\ UNCHANGED <<wSpan, wEnds>>
     ELSE /\ wPc' = "except_flush" /\ wSpan' = "ended" /\ wEnds' = wEnds + 1
          /\ UNCHANGED wOutcome
  /\ UNCHANGED <<wStage, wFault, wBody, notSpan>>

\* except Exception: flush(), then raise
ExceptFlush ==
  /\ wPc = "except_flush"
  /\ Leave
  /\ UNCHANGED <<wStage, wFault, wBody, wSpan, wEnds, notSpan>>

NextSpan ==
  \/ CreateTraceStartSpan \/ CreateTraceUpdateTrace \/ WrappedStage
  \/ TryUpdate \/ TryUpdateTrace \/ TryEnd \/ TryFlush
  \/ ExceptUpdateTrace \/ ExceptEnd \/ ExceptFlush

SpecSpan == InitSpan /\ [][NextSpan]_vars

\* C25: a span that was started has been ended exactly once when the
\* wrapper returns or raises, on the normal path and on every error path.
C25_SpanEndedExactlyOnce ==
  (wPc = "done" /\ wFault \notin {"absent", "start_span"}) => wEnds = 1

\* --------------------------------- evaluations on shared instances
\* Several case evaluations run on one Judge and one SyncChecks. Each runs
\* run_all_checks on its text and then evaluate_single, whose body is
\* taken apart at every statement, so that the evaluations interleave at
\* any point, not only at the await of the judge call.
MaxTasks == 2          \* evaluations running at the same time

Tasks == 1..MaxTasks

\* the tables SyncChecks.__init__ compiles
CompiledPatterns == [no_go |-> NoGoKeys, cta |-> {"bellen", "\"bellen\""}]

SharedTexts == {<<"hallo">>, <<"jan@example.com", "bellen">>}
SharedOutcomes ==
  {AllScored(4), AllScored(3), [kind |-> "timeout", response |-> NoEntries],
   [kind |-> "marker", response |-> NoEntries],
   [kind |-> "object",
    response |-> [k \in CritIdx |-> Obj(4, IF k = 3 THEN "" ELSE GoodReason)]]}

\* the case id of evaluation t
TaskCase(t) == IF t = 1 THEN "001" ELSE "002"

\* a variable kept on the instance instead of in the coroutine: every
\* evaluation reads the one of the first
Own_shared(slots, t) == slots[1]

\* a local variable of evaluate_single: each call has its own
Own(slots, t) == slots[t]

InitShared ==
  /\ NotSharedIdle
  /\ kRubric = Weights
  /\ kThreshold = pass_threshold
  /\ kPatterns = CompiledPatterns
  /\ kText \in [Tasks -> SharedTexts]
  /\ kOutcome \in [Tasks -> SharedOutcomes]
  /\ kPc = [t \in Tasks |-> "check"]
  /\ kGuard = [t \in Tasks |-> <<>>]
  /\ kScores = [t \in Tasks |-> <<>>]
  /\ kResult = [t \in Tasks |-> <<>>]

\* checker.run_all_checks(text, max_words=120, cta_required=True)
TaskCheck(t) ==
  /\ kPc[t] = "check"
  /\ kGuard' = [kGuard EXCEPT ![t] = <<run_all_checks(kText[t], PipeMaxWords, None, TRUE)>>]
  /\ kPc' = [kPc EXCEPT ![t] = "call"]
  /\ UNCHANGED <<kRubric, kThreshold, kPatterns, kText, kOutcome, kScores, kResult, notShared>>

\* evaluate_single builds the prompt and awaits client.judge(judge_prompt)
TaskCallJudge(t) ==
  /\ kPc[t] = "call"
  /\ kPc' = [kPc EXCEPT ![t] = "await"]
  /\ UNCHANGED <<kRubric, kThreshold, kPatterns, kText, kOutcome, kGuard, kScores, kResult, notShared>>

\* the awaited call ends: an exception or the parse-error marker gives the
\* failed result at once
TaskAnswer(t) ==
  /\ kPc[t] = "await"
  /\ IF kOutcome[t].kind \in RaisingKinds
     THEN /\ kResult' = [kResult EXCEPT ![t] = <<FailedResult(TaskCase(t), "str(e)")>>]
          /\ kPc' = [kPc EXCEPT ![t] = "done"]
     ELSE IF kOutcome[t].kind = "marker"
     THEN /\ kResult' = [kResult EXCEPT ![t] = <<FailedResult(TaskCase(t), "raw_response")>>]
          /\ kPc' = [kPc EXCEPT ![t] = "done"]
     ELSE /\ kResult' = kResult
          /\ kPc' = [kPc EXCEPT ![t] = "parse"]
  /\ UNCHANGED <<kRubric, kThreshold, kPatterns, kText, kOutcome, kGuard, kScores, notShared>>

\* criterion_scores = self._parse_judge_response(judge_response)
TaskParse(t) ==
  /\ kPc[t] = "parse"
  /\ kScores' = [kScores EXCEPT ![t] = parse_judge_response(kOutcome[t].response)]
  /\ kPc' = [kPc EXCEPT ![t] = "validate"]
  /\ UNCHANGED <<kRubric, kThreshold, kPatterns, kText, kOutcome, kGuard, kResult, notShared>>

\* if not self._validate_reasons(criterion_scores): the failed result
TaskValidate(t) ==
  /\ kPc[t] = "validate"
  /\ LET valid == validate_reasons(Own(kScores, t))
     IN IF valid = "True"
        THEN kResult' = kResult /\ kPc' = [kPc EXCEPT ![t] = "score"]
        ELSE /\ kResult' = [kResult EXCEPT ![t] =
                  <<FailedResult(TaskCase(t), IF valid = "AttributeError" THEN "str(e)"
                                              ELSE "str(judge_response)")>>]
             /\ kPc' = [kPc EXCEPT ![t] = "done"]
  /\ UNCHANGED <<kRubric, kThreshold, kPatterns, kText, kOutcome, kGuard, kScores, notShared>>

\* the weighted score, the pass decision and the JudgeResult returned
TaskScore(t) ==
  /\ kPc[t] = "score"
  /\ LET weighted_score == calculate_weighted_score(Own(kScores, t))
     IN kResult' = [kResult EXCEPT ![t] =
          <<[case_id |-> TaskCase(t), criterion_scores |-> Own(kScores, t),
             weighted_final_score |-> weighted_score,
             passed |-> Geq(weighted_score, kThreshold),
             failed_judge_parse |-> FALSE, raw_response |-> "", raised |-> None]>>]
  /\ kPc' = [kPc EXCEPT ![t] = "done"]
  /\ UNCHANGED <<kRubric, kThreshold, kPatterns, kText, kOutcome, kGuard, kScores, notShared>>

NextShared ==
  \E t \in Tasks :
    \/ TaskCheck(t) \/ TaskCallJudge(t) \/ TaskAnswer(t)
    \/ TaskParse(t) \/ TaskValidate(t) \/ TaskScore(t)

SpecShared == InitShared /\ [][NextShared]_vars

\* C26: in every interleaving of the evaluations the configuration of the
\* shared instances (rubric weights, pass threshold, compiled patterns) is
\* what the constructors set, and each finished evaluation holds the
\* guardrail record and the JudgeResult it gets when it runs alone.
C26_SharedInstancesSafe ==
  /\ kRubric = Weights
  /\ kThreshold = pass_threshold
  /\ kPatterns = CompiledPatterns
  /\ \A t \in Tasks :
       /\ kGuard[t] # <<>>
            => kGuard[t][1] = run_all_checks(kText[t], PipeMaxWords, None, TRUE)
       /\ kPc[t] = "done"
            => kResult[t][1] = evaluate_single(TaskCase(t), kOutcome[t])

\* the second evaluation finished with a score while the first, with
\* another answer, was still between its parse and its score step
C26_Witness ==
  /\ kPc[2] = "done" /\ ~kResult[2][1].failed_judge_parse
  /\ kPc[1] \in {"validate", "score"}
  /\ kOutcome[1] # kOutcome[2]
  /\ kScores[1] # kScores[2]

\* --------------------------------------- responses without usable criteria
\* the response is structured (an object) and holds no rubric criterion
NoCriteria ==
  /\ jOutcome.kind \in {"object", "error_only"}
  /\ \A k \in CritIdx : jOutcome.response[k].kind = "absent"

\* C27: for a structured response with none of the rubric criteria the
\* result evaluate_single returns has failed_judge_parse FALSE, no
\* criterion scores, the number 0.0 as weighted score (not null) and
\* passed FALSE.
C27_EmptyResponseScoresZero ==
  (JudgeDone /\ JudgeOut.raised = None /\ NoCriteria) =>
    /\ ~JudgeOut.failed_judge_parse
    /\ JudgeOut.criterion_scores = <<>>
    /\ JudgeOut.weighted_final_score = Zero
    /\ JudgeOut.weighted_final_score # Null
    /\ ~JudgeOut.passed

\* an empty object was evaluated under a working tracer
C27_Witness ==
  /\ JudgeDone /\ jTracer = "working" /\ jOutcome.kind = "object" /\ NoCriteria
  /\ JudgeOut.weighted_final_score = Zero

\* the first malformed criterion of the response, 0 if there is none
FirstMalformed ==
  LET at == {k \in CritIdx : Malformed(jOutcome.response[k])}
  IN IF at = {} THEN 0 ELSE CHOOSE k \in at : \A j \in at : k <= j

\* the criteria of the response before the first malformed one, parsed
EarlierScores ==
  parse_judge_response([k \in CritIdx |->
    IF k < FirstMalformed THEN jOutcome.response[k] ELSE Absent])

NoNumericScore(rows) ==
  \A i \in 1..Len(rows) : rows[i].final_score \in {FinalNone, FinalEmpty, FinalText, NaN}

\* C29: a variant without a numeric final score has average 0.0 and pass
\* and parse-failure counts 0; against such a baseline a candidate whose
\* average is at least 0.25 meets the promotion threshold; and the
\* improvement percentage is 0.0 whenever the baseline average is 0.
C29_EmptyBaselineCountsAsZero ==
  RegressDone =>
    /\ NoNumericScore(rA) =>
         /\ RegressOut.variant_a.avg_score = Zero
         /\ RegressOut.variant_a.passed = 0
         /\ RegressOut.variant_a.parse_failed = 0
    /\ (NoNumericScore(rA) /\ RegressOut.variant_b.avg_score # NaN
          /\ Geq(RegressOut.variant_b.avg_score, promotion_threshold))
         => RegressOut.meets_promotion_threshold
    /\ RegressOut.variant_a.avg_score = Zero
         => RegressOut.improvement_percentage = [kind |-> "float", val |-> Zero]

\* ------------------------------------------------ batch sequencing
\* the loop of _execute has a judge call pending for case i
InFlight(i) == i \in bInFlight

\* the local list results grew by exactly one element at its end
Appended == /\ Len(bResults') = Len(bResults) + 1
            /\ SubSeq(bResults', 1, Len(bResults)) = bResults

\* C30: evaluate_batch issues the delegate judge calls strictly one at a
\* time in input order: at most one judge call is in flight at any moment,
\* the call in flight is the one for the case right after the results
\* appended so far, a call starts only when none is pending, the result list
\* holds the results of the first cases in input order and changes only by
\* an append at its end, and the list returned is that list.
C30_OneJudgeCallAtATime ==
  /\ [](/\ Cardinality(bInFlight) <= 1
        /\ \A i \in bInFlight : i = Len(bResults) + 1 /\ i <= Len(bCases)
        /\ Len(bResults) <= Len(bCases)
        /\ \A i \in 1..Len(bResults) : bResults[i].case_id = bCases[i]
        /\ bPc = "done" => bReturned = <<bResults>> /\ Len(bResults) = Len(bCases))
  /\ [][/\ (bInFlight' # bInFlight /\ bInFlight' # {})
            => (bInFlight = {} /\ bInFlight' = {Len(bResults) + 1}
                /\ bResults' = bResults)
        /\ bResults' # bResults => (Appended /\ InFlight(Len(bResults) + 1))
       ]_vars

\* the call for the second case is pending and the result of the first case
\* is in the list
C30_Witness ==
  /\ Len(bCases) >= 2
  /\ InFlight(2)
  /\ Len(bResults) = 1
  /\ bResults[1].case_id = bCases[1]

====
